---- MODULE Spec2Model ----
(***************************************************************************)
(* Take It Down backend: the case workflow engine                          *)
(* (src/workflow/state_machine.py) and the SLA background worker           *)
(* (src/workflow/sla_worker.py).                                           *)
(*                                                                         *)
(* Time is counted in whole hours.  An Optional value that is None is the  *)
(* number None (-1); every real time and every real hour count is >= 0.    *)
(***************************************************************************)
EXTENDS Integers, Sequences, FiniteSets, TLC

\* ------------------------------------------------------------------ bounds
\* The clock never runs past MaxNow.
MaxNow == 3
\* No case is escalated beyond this level.
MaxLevel == 2

\* ------------------------------------------------------- enumerations
\* Optional[...] = None (CaseContext defaults, StateTransition.sla_hours).
None == -1

\* A missing string (assigned_officer_id = None, no transition returned).
NoneStr == "None"

CaseStatus == {"Submitted", "In Review", "Approved", "Rejected", "Escalated", "Closed"}

CasePriority == {"low", "medium", "high", "urgent"}

\* The actions of the transition table, and one the table does not know.
Actions == {"start_review", "approve", "reject", "escalate", "reassign", "close", "reopen"}

\* The roles an actor can come with.
UserRoles == {"victim", "officer", "admin", "system"}

\* Python truthiness of an Optional[int]: None and 0 are false.
Truthy(x) == x # None /\ x # 0

\* StateTransition(...): one rule of the table.
StateTransition(from, to, reason, role, hours, auto) ==
    [from_status |-> from, to_status |-> to, reason_code |-> reason,
     required_role |-> role, sla_hours |-> hours, auto_escalation |-> auto]

\* What execute_transition returns for "no transition" (Python None).
NoTransition == StateTransition(NoneStr, NoneStr, NoneStr, NoneStr, None, FALSE)

\* A table with a rule out of Closed back to Submitted.
define_transitions_reopen ==
    (<<"Submitted", "start_review">> :>
        StateTransition("Submitted", "In Review", "officer_assignment", "officer", 48, FALSE))
 @@ (<<"In Review", "approve">> :>
        StateTransition("In Review", "Approved", "content_verified_harmful", "officer", None, FALSE))
 @@ (<<"In Review", "reject">> :>
        StateTransition("In Review", "Rejected", "content_verified_safe", "officer", None, FALSE))
 @@ (<<"In Review", "escalate">> :>
        StateTransition("In Review", "Escalated", "sla_violation", "system", None, TRUE))
 @@ (<<"Escalated", "reassign">> :>
        StateTransition("Escalated", "In Review", "manual_escalation", "admin", 24, FALSE))
 @@ (<<"Approved", "close">> :>
        StateTransition("Approved", "Closed", "case_closed", "officer", None, FALSE))
 @@ (<<"Rejected", "close">> :>
        StateTransition("Rejected", "Closed", "case_closed", "officer", None, FALSE))
 @@ (<<"Closed", "reopen">> :>
        StateTransition("Closed", "Submitted", "case_reopened", "admin", None, FALSE))

\* A table whose rule for closing a Rejected case carries the reason of the
\* rejection.
define_transitions_reason ==
    (<<"Submitted", "start_review">> :>
        StateTransition("Submitted", "In Review", "officer_assignment", "officer", 48, FALSE))
 @@ (<<"In Review", "approve">> :>
        StateTransition("In Review", "Approved", "content_verified_harmful", "officer", None, FALSE))
 @@ (<<"In Review", "reject">> :>
        StateTransition("In Review", "Rejected", "content_verified_safe", "officer", None, FALSE))
 @@ (<<"In Review", "escalate">> :>
        StateTransition("In Review", "Escalated", "sla_violation", "system", None, TRUE))
 @@ (<<"Escalated", "reassign">> :>
        StateTransition("Escalated", "In Review", "manual_escalation", "admin", 24, FALSE))
 @@ (<<"Approved", "close">> :>
        StateTransition("Approved", "Closed", "case_closed", "officer", None, FALSE))
 @@ (<<"Rejected", "close">> :>
        StateTransition("Rejected", "Closed", "content_verified_safe", "officer", None, FALSE))

\* A table whose rule for starting the review sets no SLA hours.
define_transitions_no_sla ==
    (<<"Submitted", "start_review">> :>
        StateTransition("Submitted", "In Review", "officer_assignment", "officer", None, FALSE))
 @@ (<<"In Review", "approve">> :>
        StateTransition("In Review", "Approved", "content_verified_harmful", "officer", None, FALSE))
 @@ (<<"In Review", "reject">> :>
        StateTransition("In Review", "Rejected", "content_verified_safe", "officer", None, FALSE))
 @@ (<<"In Review", "escalate">> :>
        StateTransition("In Review", "Escalated", "sla_violation", "system", None, TRUE))
 @@ (<<"Escalated", "reassign">> :>
        StateTransition("Escalated", "In Review", "manual_escalation", "admin", 24, FALSE))
 @@ (<<"Approved", "close">> :>
        StateTransition("Approved", "Closed", "case_closed", "officer", None, FALSE))
 @@ (<<"Rejected", "close">> :>
        StateTransition("Rejected", "Closed", "case_closed", "officer", None, FALSE))

\* WorkflowEngine._define_transitions: (status, action) -> rule.
define_transitions ==
    (<<"Submitted", "start_review">> :>
        StateTransition("Submitted", "In Review", "officer_assignment", "officer", 48, FALSE))
 @@ (<<"In Review", "approve">> :>
        StateTransition("In Review", "Approved", "content_verified_harmful", "officer", None, FALSE))
 @@ (<<"In Review", "reject">> :>
        StateTransition("In Review", "Rejected", "content_verified_safe", "officer", None, FALSE))
 @@ (<<"In Review", "escalate">> :>
        StateTransition("In Review", "Escalated", "sla_violation", "system", None, TRUE))
 @@ (<<"Escalated", "reassign">> :>
        StateTransition("Escalated", "In Review", "manual_escalation", "admin", 24, FALSE))
 @@ (<<"Approved", "close">> :>
        StateTransition("Approved", "Closed", "case_closed", "officer", None, FALSE))
 @@ (<<"Rejected", "close">> :>
        StateTransition("Rejected", "Closed", "case_closed", "officer", None, FALSE))

\* WorkflowEngine._get_sla_config: hours by priority.
get_sla_config ==
    ("low" :> 72) @@ ("medium" :> 48) @@ ("high" :> 24) @@ ("urgent" :> 12)

\* The notes the SLA code passes with an automatic escalation.
auto_notes(level) ==
    "Auto-escalated due to SLA violation (level " \o ToString(level) \o ")"

\* The notes a caller passes to execute_transition (NoneStr: the default None).
Notes == {NoneStr, "Content verified by officer", auto_notes(1)}

\* The notes each kind of caller passes: the SLA code its text, an officer a
\* remark, anyone else none.
caller_notes(user_role) ==
    CASE user_role = "system" -> auto_notes(1)
      [] user_role = "officer" -> "Content verified by officer"
      [] OTHER -> NoneStr

\* An error or success message: its wording and the two values it names.
Message(kind, a, b) == [kind |-> kind, a |-> a, b |-> b]

\* can_transition with the role check letting an admin through everywhere.
can_transition_admin(context, action, user_role) ==
    LET key == <<context.current_status, action>> IN
    IF key \notin DOMAIN define_transitions
    THEN [ok |-> FALSE,
          msg |-> Message("Invalid transition", context.current_status, action)]
    ELSE LET transition == define_transitions[key] IN
         IF transition.required_role # "system"
            /\ user_role # transition.required_role /\ user_role # "admin"
         THEN [ok |-> FALSE,
               msg |-> Message("Role not allowed", user_role, transition.required_role)]
         ELSE IF context.current_status = transition.to_status
         THEN [ok |-> FALSE,
               msg |-> Message("Case is already in status", transition.to_status, NoneStr)]
         ELSE [ok |-> TRUE, msg |-> Message("Transition allowed", NoneStr, NoneStr)]

\* WorkflowEngine.can_transition: (allowed, message).
can_transition(context, action, user_role) ==
    LET key == <<context.current_status, action>> IN
    IF key \notin DOMAIN define_transitions
    THEN [ok |-> FALSE,
          msg |-> Message("Invalid transition", context.current_status, action)]
    ELSE LET transition == define_transitions[key] IN
         IF transition.required_role # "system" /\ user_role # transition.required_role
         THEN [ok |-> FALSE,
               msg |-> Message("Role not allowed", user_role, transition.required_role)]
         ELSE IF context.current_status = transition.to_status
         THEN [ok |-> FALSE,
               msg |-> Message("Case is already in status", transition.to_status, NoneStr)]
         ELSE [ok |-> TRUE, msg |-> Message("Transition allowed", NoneStr, NoneStr)]

\* execute_transition that stamps updated_at before it validates.
execute_transition_touch(context, action, user_id, user_role, notes, t1, t2) ==
    LET chk == can_transition(context, action, user_role) IN
    IF ~chk.ok
    THEN [ok |-> FALSE, msg |-> chk.msg, transition |-> NoTransition,
          context |-> [context EXCEPT !.updated_at = t2]]
    ELSE LET transition == define_transitions[<<context.current_status, action>>]
             c1 == [context EXCEPT !.current_status = transition.to_status,
                                   !.updated_at = t2]
             c2 == IF Truthy(transition.sla_hours)
                   THEN [c1 EXCEPT !.sla_due_at = t1 + transition.sla_hours] ELSE c1
             c3 == IF transition.auto_escalation
                   THEN [c2 EXCEPT !.escalation_level = @ + 1] ELSE c2
         IN [ok |-> TRUE, msg |-> Message("Transition successful", NoneStr, NoneStr),
             transition |-> transition, context |-> c3]

\* execute_transition that stores new_sla_due_at whether or not the rule sets hours.
execute_transition_clear_sla(context, action, user_id, user_role, notes, t1, t2) ==
    LET chk == can_transition(context, action, user_role) IN
    IF ~chk.ok
    THEN [ok |-> FALSE, msg |-> chk.msg, transition |-> NoTransition, context |-> context]
    ELSE LET transition == define_transitions[<<context.current_status, action>>]
             new_sla_due_at == IF Truthy(transition.sla_hours)
                               THEN t1 + transition.sla_hours ELSE None
             c1 == [context EXCEPT !.current_status = transition.to_status,
                                   !.updated_at = t2]
             c2 == [c1 EXCEPT !.sla_due_at = new_sla_due_at]
             c3 == IF transition.auto_escalation
                   THEN [c2 EXCEPT !.escalation_level = @ + 1] ELSE c2
         IN [ok |-> TRUE, msg |-> Message("Transition successful", NoneStr, NoneStr),
             transition |-> transition, context |-> c3]

\* execute_transition that takes the SLA hours from the priority table.
execute_transition_priority(context, action, user_id, user_role, notes, t1, t2) ==
    LET chk == can_transition(context, action, user_role) IN
    IF ~chk.ok
    THEN [ok |-> FALSE, msg |-> chk.msg, transition |-> NoTransition, context |-> context]
    ELSE LET transition == define_transitions[<<context.current_status, action>>]
             c1 == [context EXCEPT !.current_status = transition.to_status,
                                   !.updated_at = t2]
             c2 == IF Truthy(transition.sla_hours)
                   THEN [c1 EXCEPT !.sla_due_at = t1 + get_sla_config[context.priority]]
                   ELSE c1
             c3 == IF transition.auto_escalation
                   THEN [c2 EXCEPT !.escalation_level = @ + 1] ELSE c2
         IN [ok |-> TRUE, msg |-> Message("Transition successful", NoneStr, NoneStr),
             transition |-> transition, context |-> c3]

\* execute_transition that starts the escalation count afresh on a reassignment.
execute_transition_reset(context, action, user_id, user_role, notes, t1, t2) ==
    LET chk == can_transition(context, action, user_role) IN
    IF ~chk.ok
    THEN [ok |-> FALSE, msg |-> chk.msg, transition |-> NoTransition, context |-> context]
    ELSE LET transition == define_transitions[<<context.current_status, action>>]
             c1 == [context EXCEPT !.current_status = transition.to_status,
                                   !.updated_at = t2]
             c2 == IF Truthy(transition.sla_hours)
                   THEN [c1 EXCEPT !.sla_due_at = t1 + transition.sla_hours] ELSE c1
             c3 == IF transition.auto_escalation
                   THEN [c2 EXCEPT !.escalation_level = @ + 1]
                   ELSE IF action = "reassign"
                   THEN [c2 EXCEPT !.escalation_level = 0] ELSE c2
         IN [ok |-> TRUE, msg |-> Message("Transition successful", NoneStr, NoneStr),
             transition |-> transition, context |-> c3]

\* execute_transition that leaves current_status as it was.
execute_transition_keep_status(context, action, user_id, user_role, notes, t1, t2) ==
    LET chk == can_transition(context, action, user_role) IN
    IF ~chk.ok
    THEN [ok |-> FALSE, msg |-> chk.msg, transition |-> NoTransition, context |-> context]
    ELSE LET transition == define_transitions[<<context.current_status, action>>]
             c1 == [context EXCEPT !.updated_at = t2]
             c2 == IF Truthy(transition.sla_hours)
                   THEN [c1 EXCEPT !.sla_due_at = t1 + transition.sla_hours] ELSE c1
             c3 == IF transition.auto_escalation
                   THEN [c2 EXCEPT !.escalation_level = @ + 1] ELSE c2
         IN [ok |-> TRUE, msg |-> Message("Transition successful", NoneStr, NoneStr),
             transition |-> transition, context |-> c3]

\* WorkflowEngine.execute_transition: (success, message, transition) and the
\* context as the call leaves it.  t1 is datetime.now() of line 205, t2 that
\* of line 209.
execute_transition(context, action, user_id, user_role, notes, t1, t2) ==
    LET chk == can_transition(context, action, user_role) IN
    IF ~chk.ok
    THEN [ok |-> FALSE, msg |-> chk.msg, transition |-> NoTransition, context |-> context]
    ELSE LET transition == define_transitions[<<context.current_status, action>>]
             new_sla_due_at == IF Truthy(transition.sla_hours)
                               THEN t1 + transition.sla_hours ELSE None
             c1 == [context EXCEPT !.current_status = transition.to_status,
                                   !.updated_at = t2]
             c2 == IF Truthy(transition.sla_hours)
                   THEN [c1 EXCEPT !.sla_due_at = new_sla_due_at] ELSE c1
             c3 == IF transition.auto_escalation
                   THEN [c2 EXCEPT !.escalation_level = @ + 1] ELSE c2
         IN [ok |-> TRUE, msg |-> Message("Transition successful", NoneStr, NoneStr),
             transition |-> transition, context |-> c3]

\* The keys of the table in the order _define_transitions inserts them.
TransitionKeys ==
    <<(<<"Submitted", "start_review">>), (<<"In Review", "approve">>),
      (<<"In Review", "reject">>), (<<"In Review", "escalate">>),
      (<<"Escalated", "reassign">>), (<<"Approved", "close">>),
      (<<"Rejected", "close">>)>>

\* WorkflowEngine.get_available_actions: the actions of the rules out of the
\* current status whose role is "system" or the user's, in table order.
get_available_actions(context, user_role) ==
    LET offered(key) ==
            /\ key[1] = context.current_status
            /\ \/ define_transitions[key].required_role = "system"
               \/ define_transitions[key].required_role = user_role
        keys == SelectSeq(TransitionKeys, offered)
    IN [k \in 1..Len(keys) |-> keys[k][2]]

\* should_escalate with the deadline itself counted as a violation.
should_escalate_at_deadline(context, t) ==
    IF context.current_status # "In Review" THEN FALSE
    ELSE IF context.sla_due_at = None THEN FALSE
    ELSE t >= context.sla_due_at

\* WorkflowEngine.should_escalate; t is datetime.now().
should_escalate(context, t) ==
    IF context.current_status # "In Review" THEN FALSE
    ELSE IF context.sla_due_at = None THEN FALSE
    ELSE t > context.sla_due_at

\* SLAProcessor.process_sla_violations: the case objects as the call leaves
\* them and the list it returns.  t1 is the clock of should_escalate and of
\* line 205, t2 that of line 209.
process_sla_violations(cases, t1, t2) ==
    LET run(k) == execute_transition(cases[k], "escalate", "system", "system",
                                     auto_notes(cases[k].escalation_level + 1), t1, t2)
        hit(k) == should_escalate(cases[k], t1) /\ run(k).ok
        entry(k) == [case_id |-> run(k).context.case_id,
                     escalation_level |-> run(k).context.escalation_level,
                     sla_due_at |-> run(k).context.sla_due_at,
                     transition |-> run(k).transition]
        escalated_cases[k \in 0..Len(cases)] ==
            IF k = 0 THEN <<>>
            ELSE IF hit(k) THEN Append(escalated_cases[k - 1], entry(k))
                 ELSE escalated_cases[k - 1]
    IN [cases |-> [k \in 1..Len(cases) |-> IF hit(k) THEN run(k).context ELSE cases[k]],
        escalated |-> escalated_cases[Len(cases)]]

\* SLAProcessor.get_cases_near_sla; t is datetime.now().
get_cases_near_sla(cases, hours_threshold, t) ==
    LET threshold_time == t + hours_threshold
        near(case) == /\ case.current_status = "In Review"
                      /\ case.sla_due_at # None
                      /\ case.sla_due_at <= threshold_time
    IN SelectSeq(cases, near)

\* ------------------------------------------------------------------- state
VARIABLES
    now,            \* the wall clock, datetime.now(), in hours
    ctx,            \* the CaseContext an engine caller holds
    prev,           \* ctx as it was before the latest call
    last,           \* the latest call: its arguments and what it returned
    level0,         \* the escalation level ctx was constructed with
    escalations,    \* successful 'escalate' transitions of ctx so far
    db,             \* table cases: case_id -> row
    audit_logs,     \* table audit_logs, in insertion order
    notifications,  \* what NotificationService.send_notification was called with
    running,        \* SLAWorker.running
    pc,             \* where the worker's start() loop stands
    cases,          \* the CaseContext objects of the cycle in progress
    idx,            \* the position of the cycle's for loop in cases
    fetched,        \* cases as the cycle's fetch returned them
    fetched_at,     \* the clock at the cycle's fetch
    warning_threshold,  \* process_sla_warnings' warning_threshold
    db_failed,      \* the repository raised during the cycle in progress
    updated,        \* the case ids whose UPDATE the worker has executed
    warned,         \* the SLA warnings of the cycle in progress: case id, clock
    stop_pc,        \* where the loop stood when stop() was last called
    loop2,          \* the loop of a call of start() made while a loop is active
    mock_cases,     \* the API's MOCK_CASES: case id -> case
    response,       \* the API's latest HTTP response
    log_file,       \* the lines of the transparency log file
    receipts,       \* the checksum log_action returned for each line
    log_result,     \* what the latest log_action returned or raised
    written,        \* the lines of the file as log_action wrote them
    view,           \* the latest call of a verifier or of the viewer, and its result
    deliveries,     \* the NotificationDelivery objects created, in order
    delivery_queue, \* NotificationService.delivery_queue: positions in deliveries
    failed_attempts,  \* AuthenticationService.failed_attempts: key -> count
    tokens,         \* the claims of the tokens issued so far
    auth            \* the latest call of the authentication code and its result

engineVars == <<ctx, prev, last, level0, escalations>>

workerVars == <<db, audit_logs, notifications, running, pc, cases, idx, fetched,
                fetched_at, warning_threshold, db_failed, updated, warned, stop_pc,
                loop2>>

apiVars == <<mock_cases, response>>

logVars == <<log_file, receipts, log_result, written, view>>

notifyVars == <<deliveries, delivery_queue>>

authVars == <<failed_attempts, tokens, auth>>

vars == <<now, ctx, prev, last, level0, escalations, db, audit_logs, notifications,
          running, pc, cases, idx, fetched, fetched_at, warning_threshold,
          db_failed, updated, warned, stop_pc, loop2, mock_cases, response,
          log_file, receipts, log_result, written, view,
          deliveries, delivery_queue, failed_attempts, tokens, auth>>

\* CaseContext(...): the dataclass of state_machine.py.
CaseContext(case_id, current_status, priority, jurisdiction, submitter_id, assigned_officer_id, escalation_level, sla_due_at, created_at, updated_at) ==
    [case_id |-> case_id, current_status |-> current_status, priority |-> priority,
     jurisdiction |-> jurisdiction, submitter_id |-> submitter_id,
     assigned_officer_id |-> assigned_officer_id,
     escalation_level |-> escalation_level, sla_due_at |-> sla_due_at,
     created_at |-> created_at, updated_at |-> updated_at]

\* The deadlines a case is constructed with.
InitDeadlines == {None, 1, 3}

\* The priorities a case is constructed with.
InitPriorities == {"low", "urgent"}

\* The thresholds get_cases_near_sla is called with (2 is its default).
Thresholds == {1, 2}

\* A call record: op is the operation, the rest what it was given and returned.
Call(op, action, user_role, ok, msg, transition, t1, flag, list, threshold) ==
    [op |-> op, action |-> action, user_role |-> user_role, ok |-> ok, msg |-> msg,
     transition |-> transition, t1 |-> t1, flag |-> flag, list |-> list,
     threshold |-> threshold]

NoCall == Call("none", NoneStr, NoneStr, FALSE, Message(NoneStr, NoneStr, NoneStr),
               NoTransition, None, FALSE, <<>>, None)

\* A case id of the API: the uuid of the demo case, or the id submit_case
\* builds from the clock and the jurisdiction (stamp None: not built).
CaseId(stamp, jurisdiction) == [stamp |-> stamp, jurisdiction |-> jurisdiction]

DemoCaseId == CaseId(None, "650e8400-e29b-41d4-a716-446655440001")

\* A case id no case has.
UnknownCaseId == CaseId(None, "unknown")

\* A case of MOCK_CASES, with the fields the endpoints read or write.
ApiCase(case_id, status, jurisdiction, created_at, updated_at) ==
    [case_id |-> case_id, status |-> status, jurisdiction |-> jurisdiction,
     created_at |-> created_at, updated_at |-> updated_at]

\* An HTTP response: the status code, the detail of an HTTPException, and the
\* case fields of the body.
Response(status_code, detail, case_id, status, action) ==
    [status_code |-> status_code, detail |-> detail, case_id |-> case_id,
     status |-> status, action |-> action]

NoResponse == Response(None, NoneStr, UnknownCaseId, NoneStr, NoneStr)

\* The filters and the limit of get_log_entries (None: not supplied).
Filters(case_id, action, actor, from_date, to_date, limit) ==
    [case_id |-> case_id, action |-> action, actor |-> actor,
     from_date |-> from_date, to_date |-> to_date, limit |-> limit]

NoFilters == Filters(NoneStr, NoneStr, NoneStr, None, None, None)

\* A call of a verifier or of the viewer: the operation, its arguments, the
\* exception that left it, the entries it returned (their line numbers with
\* them) and the report it returned.
View(op, args, raised, entries, report) ==
    [op |-> op, args |-> args, raised |-> raised, entries |-> entries, report |-> report]

NoView == View("none", NoFilters, NoneStr, <<>>, <<>>)

\* The transparency log before anything is logged: no line in the file.
LogIdle ==
    /\ log_file = <<>>
    /\ receipts = <<>>
    /\ log_result = [raised |-> NoneStr, checksum |-> NoneStr]
    /\ written = <<>>
    /\ view = NoView

\* NotificationService as constructed: no delivery made, nothing queued.
NotifyIdle ==
    /\ deliveries = <<>>
    /\ delivery_queue = <<>>

\* What the fields of a token read when no token was issued.
NoToken == [username |-> NoneStr, role |-> NoneStr, purpose |-> NoneStr, exp |-> None]

\* A call of the authentication code: its arguments, whether it compared the
\* password, and what it returned: (success, message) and the claims of the
\* token, or the exception raised.
AuthCall(op, username, role, ip_address, password, purpose, compared, ok, msg, token, raised, before, since, at) ==
    [op |-> op, username |-> username, role |-> role, ip_address |-> ip_address,
     password |-> password, purpose |-> purpose, compared |-> compared,
     ok |-> ok, msg |-> msg, token |-> token, raised |-> raised,
     before |-> before, since |-> since, at |-> at]

\* No call yet. (before and since: the failed attempts recorded for the
\* call's key before it and the clock at the latest of them; at: the clock
\* at the call.)
NoAuth ==
    AuthCall("none", NoneStr, NoneStr, NoneStr, NoneStr, NoneStr, FALSE, FALSE, NoneStr,
             NoToken, NoneStr, 0, None, None)

\* AuthenticationService as constructed: failed_attempts = {}, no token issued.
AuthIdle ==
    /\ failed_attempts = <<>>
    /\ tokens = {}
    /\ auth = NoAuth

\* The API module as loaded: MOCK_CASES holds the demo case, submitted.
ApiIdle ==
    /\ mock_cases = (DemoCaseId :> ApiCase(DemoCaseId, "submitted", "IN", 0, 0))
    /\ response = NoResponse

\* The worker before start(): nothing persisted, nothing fetched.
\* The locals of one running start(): where its loop stands, the cases of its
\* cycle in progress, the position of the cycle's for loop, and the case ids
\* whose UPDATE it has executed.
Loop(at, loop_cases, k, loop_updated) ==
    [pc |-> at, cases |-> loop_cases, idx |-> k, updated |-> loop_updated]

\* No second start() is running.
NoLoop == Loop("stopped", <<>>, 0, {})

WorkerIdle ==
    /\ db = <<>>
    /\ audit_logs = <<>>
    /\ notifications = {}
    /\ running = FALSE
    /\ pc = "stopped"
    /\ cases = <<>>
    /\ idx = 0
    /\ fetched = <<>>
    /\ fetched_at = None
    /\ warning_threshold = None
    /\ db_failed = FALSE
    /\ updated = {}
    /\ warned = {}
    /\ stop_pc = NoneStr
    /\ loop2 = NoLoop

\* An engine caller holding one case context, constructed with any field values.
Init ==
    /\ now = 0
    /\ ctx \in {CaseContext("CASE-2025-0001", s, p, "IN", "victim_001", o, l, d, 0, 0) :
                  s \in CaseStatus, p \in InitPriorities, o \in {"officer_001"},
                  l \in 0..1, d \in InitDeadlines}
    /\ prev = ctx
    /\ last = NoCall
    /\ level0 = ctx.escalation_level
    /\ escalations = 0
    /\ WorkerIdle
    /\ ApiIdle
    /\ LogIdle
    /\ NotifyIdle
    /\ AuthIdle

\* The clock advances.
Tick ==
    /\ now < MaxNow
    /\ now' = now + 1
    /\ prev' = ctx
    /\ last' = NoCall
    /\ UNCHANGED <<ctx, level0, escalations>>
    /\ UNCHANGED <<workerVars, apiVars, logVars, notifyVars, authVars>>

\* workflow.execute_transition(ctx, action, user_id, user_role, notes): the
\* clock may advance between its two readings.
ExecuteTransition(action, user_id, user_role, notes) ==
    \E t2 \in now..MaxNow :
        LET r == execute_transition(ctx, action, user_id, user_role, notes, now, t2) IN
        /\ t2 <= now + 1
        /\ r.context.escalation_level <= MaxLevel
        /\ now' = IF r.ok THEN t2 ELSE now
        /\ prev' = ctx
        /\ ctx' = r.context
        /\ last' = Call("execute_transition", action, user_role, r.ok, r.msg,
                        r.transition, now, FALSE, <<>>, None)
        /\ escalations' = IF r.ok /\ action = "escalate"
                          THEN escalations + 1 ELSE escalations
        /\ UNCHANGED level0
        /\ UNCHANGED <<workerVars, apiVars, logVars, notifyVars, authVars>>

\* workflow.should_escalate(ctx).
ShouldEscalate ==
    /\ prev' = ctx
    /\ last' = Call("should_escalate", NoneStr, NoneStr, FALSE,
                    Message(NoneStr, NoneStr, NoneStr), NoTransition, now,
                    should_escalate(ctx, now), <<>>, None)
    /\ UNCHANGED <<now, ctx, level0, escalations>>
    /\ UNCHANGED <<workerVars, apiVars, logVars, notifyVars, authVars>>

\* SLAProcessor.get_cases_near_sla([ctx], hours_threshold).
GetCasesNearSla(hours_threshold) ==
    /\ prev' = ctx
    /\ last' = Call("get_cases_near_sla", NoneStr, NoneStr, FALSE,
                    Message(NoneStr, NoneStr, NoneStr), NoTransition, now, FALSE,
                    get_cases_near_sla(<<ctx>>, hours_threshold, now), hours_threshold)
    /\ UNCHANGED <<now, ctx, level0, escalations>>
    /\ UNCHANGED <<workerVars, apiVars, logVars, notifyVars, authVars>>

\* SLAProcessor.process_sla_violations([ctx]).
ProcessSlaViolations ==
    \E t2 \in now..MaxNow :
        LET r == process_sla_violations(<<ctx>>, now, t2) IN
        /\ t2 <= now + 1
        /\ r.cases[1].escalation_level <= MaxLevel
        /\ now' = IF r.escalated # <<>> THEN t2 ELSE now
        /\ prev' = ctx
        /\ ctx' = r.cases[1]
        /\ last' = Call("process_sla_violations", "escalate", "system",
                        r.escalated # <<>>, Message(NoneStr, NoneStr, NoneStr),
                        NoTransition, now, FALSE, r.escalated, None)
        /\ escalations' = escalations + Len(r.escalated)
        /\ UNCHANGED level0
        /\ UNCHANGED <<workerVars, apiVars, logVars, notifyVars, authVars>>

\* workflow.get_available_actions(ctx, user_role).
GetAvailableActions(user_role) ==
    /\ prev' = ctx
    /\ last' = Call("get_available_actions", NoneStr, user_role, FALSE,
                    Message(NoneStr, NoneStr, NoneStr), NoTransition, now, FALSE,
                    get_available_actions(ctx, user_role), None)
    /\ UNCHANGED <<now, ctx, level0, escalations>>
    /\ UNCHANGED <<workerVars, apiVars, logVars, notifyVars, authVars>>

Next ==
    \/ Tick
    \/ ProcessSlaViolations
    \/ \E user_role \in UserRoles : GetAvailableActions(user_role)
    \/ \E action \in Actions, user_role \in UserRoles :
          ExecuteTransition(action, IF user_role = "system" THEN "system" ELSE "user_001",
                            user_role, caller_notes(user_role))
    \/ ShouldEscalate
    \/ \E hours_threshold \in Thresholds : GetCasesNearSla(hours_threshold)

Spec == Init /\ [][Next]_vars

\* A case as it is created: Submitted, with no SLA deadline.
InitCreated ==
    /\ Init
    /\ ctx.current_status = "Submitted"
    /\ ctx.sla_due_at = None

\* An engine caller holding a newly created case.
SpecCreated == InitCreated /\ [][Next]_vars

\* ------------------------------------------------------- engine claims
\* The rule the latest execute_transition call looked up, when there is one.
LastKey == <<prev.current_status, last.action>>

LastRule == define_transitions[LastKey]

Executed == last.op = "execute_transition"

\* C1: for every (state, action) the transition table has no rule for,
\* execute_transition fails for every role with the invalid-transition error
\* naming that state and action, returns no transition, and leaves every field
\* of the case as it was.
C1_InvalidTransitionRejected ==
    (Executed /\ LastKey \notin DOMAIN define_transitions) =>
        /\ ~last.ok
        /\ last.msg = Message("Invalid transition", prev.current_status, last.action)
        /\ last.transition = NoTransition
        /\ ctx = prev

\* C1 happens: the system role asked for 'approve' on a Closed case, after the
\* clock had moved on from the case's updated_at.
C1_Witness ==
    /\ Executed
    /\ prev.current_status = "Closed"
    /\ last.action = "approve"
    /\ last.user_role = "system"
    /\ now > prev.updated_at
    /\ ~last.ok

\* C2: after a successful execute_transition the state is the rule's target,
\* case id, priority, jurisdiction, submitter, assigned officer and created_at
\* are unchanged, and the deadline and the escalation level are unchanged unless
\* the rule sets slaHours, respectively autoEscalation.
C2_SuccessFrame ==
    (Executed /\ last.ok) =>
        /\ LastKey \in DOMAIN define_transitions
        /\ ctx.current_status = LastRule.to_status
        /\ ctx.case_id = prev.case_id
        /\ ctx.priority = prev.priority
        /\ ctx.jurisdiction = prev.jurisdiction
        /\ ctx.submitter_id = prev.submitter_id
        /\ ctx.assigned_officer_id = prev.assigned_officer_id
        /\ ctx.created_at = prev.created_at
        /\ (~Truthy(LastRule.sla_hours) => ctx.sla_due_at = prev.sla_due_at)
        /\ (~LastRule.auto_escalation => ctx.escalation_level = prev.escalation_level)

\* C2 happens: an approval of a case that carries a deadline.
C2_Witness ==
    /\ Executed
    /\ last.ok
    /\ last.action = "approve"
    /\ prev.sla_due_at # None
    /\ ctx.current_status = "Approved"

\* C3: for a rule whose required role is not 'system', an actor with another
\* role is refused with the forbidden error naming the actual and the required
\* role and the case is unchanged; the required role is not refused for its role.
C3_RoleEnforced ==
    (Executed /\ LastKey \in DOMAIN define_transitions
              /\ LastRule.required_role # "system") =>
        IF last.user_role # LastRule.required_role
        THEN /\ ~last.ok
             /\ last.msg = Message("Role not allowed", last.user_role,
                                   LastRule.required_role)
             /\ last.transition = NoTransition
             /\ ctx = prev
        ELSE last.msg.kind # "Role not allowed"

\* C3 happens: an admin asked to approve a case In Review and was refused.
C3_Witness ==
    /\ Executed
    /\ prev.current_status = "In Review"
    /\ last.action = "approve"
    /\ last.user_role = "admin"
    /\ ~last.ok
    /\ last.msg.kind = "Role not allowed"

\* C4: Closed is the only terminal state (no action by any role succeeds on a
\* Closed case, some action by some role succeeds in every other state), and no
\* successful transition ends in Submitted.
C4_ClosedOnlyTerminal ==
    /\ (ctx.current_status = "Closed") <=>
           (\A a \in Actions, r \in UserRoles : ~can_transition(ctx, a, r).ok)
    /\ (Executed /\ prev.current_status = "Closed") => (~last.ok /\ ctx = prev)
    /\ (Executed /\ last.ok) => ctx.current_status # "Submitted"

\* C4 happens: an admin tried the unknown action on a Closed case.
C4_Witness ==
    /\ Executed
    /\ prev.current_status = "Closed"
    /\ last.action = "reopen"
    /\ last.user_role = "admin"
    /\ ctx.current_status = "Closed"

\* C5: after a successful transition whose rule sets slaHours the deadline is
\* the clock reading of the transition (line 205) plus the rule's hours, 48 for
\* start_review and 24 for reassign, whatever the priority and the earlier
\* deadline of the case were.
C5_DeadlineFromRule ==
    (Executed /\ last.ok /\ Truthy(LastRule.sla_hours)) =>
        /\ ctx.sla_due_at = last.t1 + LastRule.sla_hours
        /\ last.action = "start_review" => ctx.sla_due_at = last.t1 + 48
        /\ last.action = "reassign" => ctx.sla_due_at = last.t1 + 24
        /\ last.action \in {"start_review", "reassign"}
        /\ \A p \in CasePriority, d \in InitDeadlines :
              execute_transition([prev EXCEPT !.priority = p, !.sla_due_at = d],
                                 last.action, "user_001", last.user_role, NoneStr,
                                 last.t1, ctx.updated_at).context.sla_due_at
                  = ctx.sla_due_at

\* C5 happens: a reassignment replaced an earlier deadline.
C5_Witness ==
    /\ Executed
    /\ last.ok
    /\ last.action = "reassign"
    /\ prev.sla_due_at # None
    /\ prev.priority = "urgent"
    /\ ctx.sla_due_at = last.t1 + 24
    /\ ctx.sla_due_at # prev.sla_due_at

\* C6: the escalation level never decreases, rises by exactly 1 on a successful
\* 'escalate', is unchanged by every other call, and so equals the level the
\* case was created with plus the number of its escalations.
C6_EscalationLevelCounts ==
    /\ Executed =>
          /\ ctx.escalation_level >= prev.escalation_level
          /\ IF last.ok /\ last.action = "escalate"
             THEN ctx.escalation_level = prev.escalation_level + 1
             ELSE ctx.escalation_level = prev.escalation_level
    /\ ctx.escalation_level = level0 + escalations

\* C6 happens: a case created with level 0 was escalated, reassigned and
\* escalated again.
C6_Witness ==
    /\ level0 = 0
    /\ escalations = 2
    /\ ctx.escalation_level = 2
    /\ ctx.current_status = "Escalated"

\* C7: should_escalate is true exactly when the case is In Review, has a
\* deadline, and the clock is strictly past the deadline; the case is not
\* modified.
C7_ShouldEscalateIff ==
    (last.op = "should_escalate") =>
        /\ last.flag <=> /\ ctx.current_status = "In Review"
                         /\ ctx.sla_due_at # None
                         /\ now > ctx.sla_due_at
        /\ ctx = prev

\* C7 happens: should_escalate answered true one hour after the deadline.
C7_Witness ==
    /\ last.op = "should_escalate"
    /\ ctx.current_status = "In Review"
    /\ ctx.sla_due_at # None
    /\ now = ctx.sla_due_at + 1
    /\ last.flag

\* C14: running the escalation step a second time over the same, unrefreshed
\* case object, at the same or any later clock, changes nothing when the first
\* run escalated the case (no transition, the object as it was), and the two
\* runs together raise the escalation level by at most 1.
C14_SecondRunIdle ==
    (last.op = "process_sla_violations") =>
        \A t \in now..(MaxNow + 1) :
            LET again == process_sla_violations(<<ctx>>, t, t) IN
            /\ again.cases[1].escalation_level <= prev.escalation_level + 1
            /\ last.list # <<>> => /\ again.escalated = <<>>
                                   /\ again.cases = <<ctx>>
                                   /\ ~should_escalate(ctx, t)

\* C14 happens: the first run escalated an overdue case by one level.
C14_Witness ==
    /\ last.op = "process_sla_violations"
    /\ Len(last.list) = 1
    /\ prev.current_status = "In Review"
    /\ ctx.current_status = "Escalated"
    /\ ctx.escalation_level = prev.escalation_level + 1

\* C8: get_cases_near_sla selects a case exactly when it is In Review, has a
\* deadline, the deadline is strictly in the future, and deadline - now is at
\* most the threshold.
C8_NearSlaIff ==
    (last.op = "get_cases_near_sla") =>
        ((last.list = <<ctx>>) <=> /\ ctx.current_status = "In Review"
                                   /\ ctx.sla_due_at # None
                                   /\ ctx.sla_due_at > now
                                   /\ ctx.sla_due_at - now <= last.threshold)

\* C26: every successful execute_transition returns the rule of the table for
\* (previous state, action): its one reason code, its from-state (the previous
\* state) and its to-state (the state reached).  start_review carries
\* officer_assignment, escalate sla_violation, reassign manual_escalation and
\* close case_closed; whatever notes are passed, the call leaves the case the
\* same and returns the same transition.
C26_ReasonCodeFromRule ==
    (Executed /\ last.ok) =>
        /\ LastKey \in DOMAIN define_transitions
        /\ last.transition = LastRule
        /\ last.transition.from_status = prev.current_status
        /\ last.transition.to_status = ctx.current_status
        /\ last.action = "start_review" => last.transition.reason_code = "officer_assignment"
        /\ last.action = "escalate" => last.transition.reason_code = "sla_violation"
        /\ last.action = "reassign" => last.transition.reason_code = "manual_escalation"
        /\ last.action = "close" => last.transition.reason_code = "case_closed"
        /\ \A notes \in Notes :
              LET r == execute_transition(prev, last.action, "user_001", last.user_role,
                                          notes, last.t1, ctx.updated_at)
              IN r.ok /\ r.context = ctx /\ r.transition = last.transition

\* C26 happens: an officer closed a Rejected case.
C26_Witness ==
    /\ Executed
    /\ last.ok
    /\ last.action = "close"
    /\ prev.current_status = "Rejected"
    /\ ctx.current_status = "Closed"
    /\ last.transition.reason_code = "case_closed"

\* C27: no successful execute_transition leaves the state as it was; a call
\* whose rule leads to the state the case is already in fails with the 'already
\* in status' message and leaves the case as it was.
C27_NoSelfTransition ==
    Executed =>
        /\ last.ok => ctx.current_status # prev.current_status
        /\ (LastKey \in DOMAIN define_transitions
               /\ LastRule.to_status = prev.current_status
               /\ last.user_role = LastRule.required_role) =>
              /\ ~last.ok
              /\ last.msg = Message("Case is already in status", LastRule.to_status, NoneStr)
              /\ ctx = prev

\* C27 happens: a reassignment took an Escalated case back to In Review, the
\* state it had been escalated from.
C27_Witness ==
    /\ Executed
    /\ last.ok
    /\ last.action = "reassign"
    /\ prev.current_status = "Escalated"
    /\ ctx.current_status = "In Review"
    /\ escalations > 0

\* C28: a successful execute_transition leaves updated_at strictly later than
\* it was before the call and not earlier than created_at; a failed one leaves
\* it as it was.
C28_UpdatedAtIncreases ==
    Executed =>
        /\ last.ok => (ctx.updated_at > prev.updated_at /\ ctx.updated_at >= ctx.created_at)
        /\ ~last.ok => ctx.updated_at = prev.updated_at

\* C29: for an In Review case, 'escalate' fails for every role other than
\* 'system', and get_available_actions offers 'escalate' to no such role.
C29_OnlySystemEscalates ==
    /\ (Executed /\ last.action = "escalate" /\ last.user_role # "system") => ~last.ok
    /\ (last.op = "get_available_actions" /\ last.user_role # "system") =>
          \A k \in 1..Len(last.list) : last.list[k] # "escalate"

\* ------------------------------------------------------------ SLA worker
\* The rows of table cases.
CaseIds == {"case-a", "case-b"}

\* users WHERE role = 'admin' AND is_active = true.
Admins == {"admin_001"}

\* The deadlines, in hours, the persisted cases start with.
RowDeadlines == {None, 1, 3}

\* The rows table cases may hold when the worker starts: cases In Review, with
\* or without a deadline, and cases escalated once, which carry the deadline
\* they were escalated for.
InitRows(id) ==
    {CaseContext(id, "In Review", "high", "IN", "victim_001", o, 0, d, 0, 0) :
        o \in {NoneStr, "officer_001"}, d \in RowDeadlines}
    \cup
    {CaseContext(id, "Escalated", "high", "IN", "victim_001", "officer_001", 1, d, 0, 0) :
        d \in RowDeadlines \ {None, 3}}

\* getattr: whether the object has the attribute.
HasAttr(obj, name) == name \in DOMAIN obj

\* NotificationService.send_notification(case_id, type, recipient, severity, ...).
Notification(case_id, notification_type, recipient_id, severity) ==
    [case_id |-> case_id, notification_type |-> notification_type,
     recipient_id |-> recipient_id, severity |-> severity]

\* SLAWorker.get_cases_for_sla_processing: the results the query can give, the
\* rows In Review or Escalated with a deadline, by deadline ascending (rows of
\* equal deadline in either order).
get_cases_for_sla_processing(d) ==
    LET ids == {c \in DOMAIN d : /\ d[c].current_status \in {"In Review", "Escalated"}
                                 /\ d[c].sla_due_at # None}
        n == Cardinality(ids)
    IN {[k \in 1..n |-> d[q[k]]] :
          q \in {f \in [1..n -> ids] :
                    /\ \A a, b \in 1..n : a # b => f[a] # f[b]
                    /\ \A a, b \in 1..n :
                          a < b => d[f[a]].sla_due_at <= d[f[b]].sla_due_at}}

\* An UPDATE that matches no row.
update_cases_row_noop(d, case) == d

\* The UPDATE of update_case_in_db (lines 173-189).
update_cases_row(d, case) ==
    [d EXCEPT ![case.case_id] =
        [@ EXCEPT !.current_status = case.current_status,
                  !.escalation_level = case.escalation_level,
                  !.sla_due_at = case.sla_due_at,
                  !.updated_at = case.updated_at]]

\* A clock reading (whole hours of one day) written with the separator sep
\* between date and time.
isoformat_sep(t, sep) ==
    IF t < 10 THEN "2025-01-13" \o sep \o "0" \o ToString(t) \o ":00:00"
    ELSE "2025-01-13" \o sep \o ToString(t) \o ":00:00"

\* datetime.isoformat.
isoformat(t) == isoformat_sep(t, "T")

\* hashlib.sha256(text).hexdigest(): distinct texts have distinct digests.
sha256(text) == [sha256 |-> text]

\* SLAWorker.calculate_audit_checksum: the digest of the six texts written one
\* after the other.
calculate_audit_checksum(case_id, actor_id, action, old_state, new_state, created_at) ==
    sha256(case_id \o actor_id \o action \o old_state \o new_state
           \o isoformat(created_at))

\* The row the INSERT of update_case_in_db writes (lines 192-221): the checksum
\* is computed over one reading of the clock, t1, and created_at is a second
\* reading, t2.
audit_row(case, transition, t1, t2) ==
    [case_id |-> case.case_id, actor_id |-> "system", action |-> transition.action,
     old_state |-> transition.from_status, new_state |-> transition.to_status,
     reason_code |-> transition.reason_code,
     meta |-> [escalation_level |-> case.escalation_level,
               sla_due_at |-> case.sla_due_at, auto_escalation |-> TRUE],
     created_at |-> t2,
     checksum |-> calculate_audit_checksum(case.case_id, "system", transition.action,
                                           transition.from_status,
                                           transition.to_status, t1)]

\* SLAWorker.update_case_in_db with the repository answering: the tables as the
\* call leaves them, and the exception it ends with (NoneStr: it returns).
\* Each db.execute is a statement of its own; nothing opens a transaction.
update_case_in_db(d, logs, case, transition, t1, t2) ==
    LET d1 == update_cases_row(d, case) IN
    IF ~HasAttr(transition, "action")
    THEN [db |-> d1, audit_logs |-> logs, raised |-> "AttributeError"]
    ELSE [db |-> d1, audit_logs |-> Append(logs, audit_row(case, transition, t1, t2)),
          raised |-> NoneStr]

\* SLAWorker.send_escalation_notifications: the notifications it sends.
send_escalation_notifications(case) ==
    (IF case.assigned_officer_id # NoneStr
     THEN {Notification(case.case_id, "case_escalated", case.assigned_officer_id, "high")}
     ELSE {})
    \cup {Notification(case.case_id, "admin_escalation_alert", a, "critical") :
            a \in Admins}

\* Table cases holds any rows; the worker has not been started.
InitWorker ==
    /\ now = 0
    /\ ctx = CaseContext("CASE-2025-0001", "Submitted", "high", "IN", "victim_001",
                         NoneStr, 0, None, 0, 0)
    /\ prev = ctx
    /\ last = NoCall
    /\ level0 = 0
    /\ escalations = 0
    /\ db \in {f \in [CaseIds -> UNION {InitRows(c) : c \in CaseIds}] :
                 \A c \in CaseIds : f[c].case_id = c}
    /\ audit_logs = <<>>
    /\ notifications = {}
    /\ running = FALSE
    /\ pc = "stopped"
    /\ cases = <<>>
    /\ idx = 0
    /\ fetched = <<>>
    /\ fetched_at = None
    /\ warning_threshold = None
    /\ db_failed = FALSE
    /\ updated = {}
    /\ warned = {}
    /\ stop_pc = NoneStr
    /\ loop2 = NoLoop
    /\ ApiIdle
    /\ LogIdle
    /\ NotifyIdle
    /\ AuthIdle

\* SLAWorker.start: running is set and the loop entered.
Start ==
    /\ pc = "stopped"
    /\ running' = TRUE
    /\ pc' = "cycle"
    /\ stop_pc' = NoneStr
    /\ UNCHANGED <<now, db, audit_logs, notifications, cases, idx, fetched,
                   fetched_at, warning_threshold, db_failed, updated, warned>>
    /\ UNCHANGED <<engineVars, apiVars, logVars, notifyVars, authVars, loop2>>

\* SLAWorker.stop.
Stop ==
    /\ running
    /\ running' = FALSE
    /\ stop_pc' = pc
    /\ UNCHANGED <<now, db, audit_logs, notifications, pc, cases, idx, fetched,
                   fetched_at, warning_threshold, db_failed, updated, warned>>
    /\ UNCHANGED <<engineVars, apiVars, logVars, notifyVars, authVars, loop2>>

\* process_sla_cycle's fetch when the repository refuses it: the exception
\* reaches start()'s except.
FetchFails ==
    /\ pc = "cycle"
    /\ db_failed' = TRUE
    /\ pc' = "backoff"
    /\ UNCHANGED <<cases, idx, fetched, fetched_at>>
    /\ UNCHANGED <<now, db, audit_logs, notifications, running, warning_threshold,
                   updated, warned, stop_pc>>
    /\ UNCHANGED <<engineVars, apiVars, logVars, notifyVars, authVars, loop2>>

\* process_sla_cycle's fetch when the repository answers, and the early return
\* on no cases.
FetchRows ==
    /\ pc = "cycle"
    /\ \E rows \in get_cases_for_sla_processing(db) :
          /\ db_failed' = FALSE
          /\ cases' = rows
          /\ fetched' = rows
          /\ fetched_at' = now
          /\ idx' = 1
          /\ pc' = IF rows = <<>> THEN "sleep" ELSE "escalations"
    /\ UNCHANGED <<now, db, audit_logs, notifications, running, warning_threshold,
                   updated, warned, stop_pc>>
    /\ UNCHANGED <<engineVars, apiVars, logVars, notifyVars, authVars, loop2>>

\* process_sla_cycle up to the first loop.
Fetch == FetchFails \/ FetchRows

\* process_escalations' loop body for a case that is not to be escalated.
EscalateSkip ==
    /\ pc = "escalations"
    /\ idx <= Len(cases)
    /\ LET case == cases[idx]
           r == execute_transition(case, "escalate", "system", "system",
                                   auto_notes(case.escalation_level), now, now)
       IN ~should_escalate(case, now) \/ ~r.ok
    /\ idx' = idx + 1
    /\ UNCHANGED <<db, audit_logs, notifications, pc, cases, db_failed, updated, warned, stop_pc>>
    /\ UNCHANGED <<now, running, fetched, fetched_at, warning_threshold>>
    /\ UNCHANGED <<engineVars, apiVars, logVars, notifyVars, authVars, loop2>>

\* process_escalations' loop body for a case to be escalated, when the
\* repository refuses the UPDATE: the in-memory case is already changed.
EscalateRefused ==
    /\ pc = "escalations"
    /\ idx <= Len(cases)
    /\ LET case == cases[idx]
           r == execute_transition(case, "escalate", "system", "system",
                                   auto_notes(case.escalation_level), now, now)
       IN
       /\ should_escalate(case, now)
       /\ r.ok
       /\ cases' = [cases EXCEPT ![idx] = r.context]
    /\ db_failed' = TRUE
    /\ pc' = "backoff"
    /\ UNCHANGED <<db, audit_logs, notifications, idx, updated, warned, stop_pc>>
    /\ UNCHANGED <<now, running, fetched, fetched_at, warning_threshold>>
    /\ UNCHANGED <<engineVars, apiVars, logVars, notifyVars, authVars, loop2>>

\* process_escalations' loop body for a case to be escalated, when the
\* repository executes the UPDATE.
EscalateUpdate ==
    /\ pc = "escalations"
    /\ idx <= Len(cases)
    /\ LET case == cases[idx]
           r == execute_transition(case, "escalate", "system", "system",
                                   auto_notes(case.escalation_level), now, now)
           u == update_case_in_db(db, audit_logs, r.context, r.transition, now, now)
       IN
       /\ should_escalate(case, now)
       /\ r.ok
       /\ cases' = [cases EXCEPT ![idx] = r.context]
       /\ db' = u.db
       /\ audit_logs' = u.audit_logs
       /\ updated' = updated \cup {case.case_id}
       /\ UNCHANGED <<warned, stop_pc>>
       /\ UNCHANGED db_failed
       /\ IF u.raised # NoneStr
          THEN /\ pc' = "backoff"
               /\ UNCHANGED <<notifications, idx>>
          ELSE /\ notifications' =
                     notifications \cup send_escalation_notifications(r.context)
               /\ idx' = idx + 1
               /\ UNCHANGED pc
    /\ UNCHANGED <<now, running, fetched, fetched_at, warning_threshold>>
    /\ UNCHANGED <<engineVars, apiVars, logVars, notifyVars, authVars, loop2>>

\* One pass of process_escalations' loop body, for cases[idx].
EscalateStep == EscalateSkip \/ EscalateRefused \/ EscalateUpdate

\* process_escalations returns; process_sla_warnings computes its threshold.
EscalationsDone ==
    /\ pc = "escalations"
    /\ idx > Len(cases)
    /\ pc' = "warnings"
    /\ idx' = 1
    /\ warning_threshold' = now + 2
    /\ UNCHANGED <<now, db, audit_logs, notifications, running, cases, fetched,
                   fetched_at, db_failed, updated, warned, stop_pc>>
    /\ UNCHANGED <<engineVars, apiVars, logVars, notifyVars, authVars, loop2>>

\* SLAAlertManager.check_sla_alerts: alerts_sent, with critical_hours 0 and
\* warning_hours 2; t is datetime.utcnow().
check_sla_alerts(rows, t) ==
    LET alert(k) ==
            IF rows[k].sla_due_at = None \/ rows[k].current_status # "In Review"
            THEN <<>>
            ELSE IF rows[k].sla_due_at - t <= 0
                 THEN <<[kind |-> "critical_alert", case_id |-> rows[k].case_id]>>
                 ELSE IF rows[k].sla_due_at - t <= 2
                      THEN <<[kind |-> "warning_alert", case_id |-> rows[k].case_id]>>
                      ELSE <<>>
        alerts_sent[k \in 0..Len(rows)] ==
            IF k = 0 THEN <<>> ELSE alerts_sent[k - 1] \o alert(k)
    IN alerts_sent[Len(rows)]

\* The test of get_cases_near_sla, which lacks the comparison with the clock.
warning_due_overdue(case, threshold, t) ==
    /\ case.current_status = "In Review"
    /\ case.sla_due_at # None
    /\ case.sla_due_at <= threshold

\* process_sla_warnings' test of one case.
warning_due(case, threshold, t) ==
    /\ case.current_status = "In Review"
    /\ case.sla_due_at # None
    /\ case.sla_due_at <= threshold
    /\ case.sla_due_at > t

\* One pass of process_sla_warnings' loop body, for cases[idx].
WarnStep ==
    /\ pc = "warnings"
    /\ idx <= Len(cases)
    /\ LET case == cases[idx] IN
       IF warning_due(case, warning_threshold, now)
          /\ case.assigned_officer_id # NoneStr
       THEN /\ notifications' = notifications \cup
                  {Notification(case.case_id, "sla_warning", case.assigned_officer_id,
                                "medium")}
            /\ warned' = warned \cup {[case_id |-> case.case_id, at |-> now]}
       ELSE UNCHANGED <<notifications, warned>>
    /\ idx' = idx + 1
    /\ UNCHANGED <<now, db, audit_logs, running, pc, cases, fetched, fetched_at,
                   warning_threshold, db_failed, updated, stop_pc>>
    /\ UNCHANGED <<engineVars, apiVars, logVars, notifyVars, authVars, loop2>>

\* process_sla_warnings and process_sla_cycle return; the loop sleeps.
WarningsDone ==
    /\ pc = "warnings"
    /\ idx > Len(cases)
    /\ pc' = "sleep"
    /\ UNCHANGED <<now, db, audit_logs, notifications, running, cases, idx, fetched,
                   fetched_at, warning_threshold, db_failed, updated, warned, stop_pc>>
    /\ UNCHANGED <<engineVars, apiVars, logVars, notifyVars, authVars, loop2>>

\* A loop that ends when a cycle has raised.
Wake_exit_on_error ==
    /\ pc \in {"sleep", "backoff"}
    /\ pc' = IF running /\ pc = "sleep" THEN "cycle" ELSE "stopped"
    /\ cases' = <<>>
    /\ idx' = 0
    /\ warning_threshold' = None
    /\ fetched' = <<>>
    /\ fetched_at' = None
    /\ db_failed' = FALSE
    /\ warned' = {}
    /\ UNCHANGED <<now, db, audit_logs, notifications, running, updated, stop_pc>>
    /\ UNCHANGED <<engineVars, apiVars, logVars, notifyVars, authVars, loop2>>

\* A loop that does not test self.running.
Wake_ignore_stop ==
    /\ pc \in {"sleep", "backoff"}
    /\ pc' = "cycle"
    /\ cases' = <<>>
    /\ idx' = 0
    /\ warning_threshold' = None
    /\ fetched' = <<>>
    /\ fetched_at' = None
    /\ db_failed' = FALSE
    /\ warned' = {}
    /\ UNCHANGED <<now, db, audit_logs, notifications, running, updated, stop_pc>>
    /\ UNCHANGED <<engineVars, apiVars, logVars, notifyVars, authVars, loop2>>

\* asyncio.sleep returns and the loop tests self.running; the finished cycle's
\* locals are gone.
Wake ==
    /\ pc \in {"sleep", "backoff"}
    /\ pc' = IF running THEN "cycle" ELSE "stopped"
    /\ cases' = <<>>
    /\ idx' = 0
    /\ warning_threshold' = None
    /\ fetched' = <<>>
    /\ fetched_at' = None
    /\ db_failed' = FALSE
    /\ warned' = {}
    /\ UNCHANGED <<now, db, audit_logs, notifications, running, updated, stop_pc>>
    /\ UNCHANGED <<engineVars, apiVars, logVars, notifyVars, authVars, loop2>>

\* A request handler persists an officer's decision on a case: it reads the row,
\* runs the engine's approve or reject as the officer, and saves the result
\* (the read-modify-write of one foreground request).
OfficerResolve(case_id, action) ==
    LET r == execute_transition(db[case_id], action, "officer_001", "officer", NoneStr, now, now) IN
    /\ action \in {"approve", "reject"}
    /\ r.ok
    /\ db' = [db EXCEPT ![case_id] = r.context]
    /\ UNCHANGED <<now, audit_logs, notifications, running, pc, cases, idx, fetched,
                   fetched_at, warning_threshold, db_failed, updated, warned, stop_pc>>
    /\ UNCHANGED <<engineVars, apiVars, logVars, notifyVars, authVars, loop2>>

NextWorker ==
    \/ Tick
    \/ Start
    \/ Stop
    \/ \E case_id \in CaseIds, action \in {"approve", "reject"} :
          OfficerResolve(case_id, action)
    \/ Fetch
    \/ EscalateStep
    \/ EscalationsDone
    \/ WarnStep
    \/ WarningsDone
    \/ Wake

SpecWorker == InitWorker /\ [][NextWorker]_vars

\* Table cases holds cases under review that share one deadline, an hour
\* ahead, each with an officer.
InitWorkerLive ==
    /\ InitWorker
    /\ \A c \in CaseIds : /\ db[c].current_status = "In Review"
                          /\ db[c].sla_due_at = 1
                          /\ db[c].assigned_officer_id # NoneStr

\* A step of start(): entering the loop, or the loop's next step.
LoopStep ==
    \/ Start
    \/ Fetch
    \/ EscalateStep
    \/ EscalationsDone
    \/ WarnStep
    \/ WarningsDone
    \/ Wake

\* The worker as a service: it is started whenever it is not running, its loop
\* keeps taking steps, and the repository does not refuse a call for ever.
SpecWorkerLive ==
    /\ InitWorkerLive
    /\ [][NextWorker]_vars
    /\ WF_vars(LoopStep)
    /\ SF_vars(FetchRows)
    /\ SF_vars(EscalateUpdate)

\* ------------------------------------------------- a second start()
\* start() has no test of self.running or of a loop in progress before it
\* enters its own loop, and stop() keeps no handle of the loop it asks to end:
\* each call of start() is a loop of its own over the same running flag and
\* the same tables. The loop of a second call stands in loop2; its awaits are
\* the points at which the two loops interleave.

\* What the first loop holds, which a step of the second leaves alone.
firstLoop == <<pc, cases, idx, fetched, fetched_at, warning_threshold, db_failed,
               updated, warned, stop_pc>>

\* SLAWorker.start, called while the loop of an earlier call has not ended
\* (it runs a cycle, or sleeps, with running set or after stop()).
StartAgain ==
    /\ pc # "stopped"
    /\ loop2.pc = "stopped"
    /\ running' = TRUE
    /\ loop2' = Loop("cycle", <<>>, 0, loop2.updated)
    /\ UNCHANGED <<now, db, audit_logs, notifications, firstLoop>>
    /\ UNCHANGED <<engineVars, apiVars, logVars, notifyVars, authVars>>

\* The second loop's process_sla_cycle up to its first loop: the fetch, which
\* the repository answers or refuses, and the early return on no cases.
SecondFetch ==
    /\ loop2.pc = "cycle"
    /\ \/ loop2' = [loop2 EXCEPT !.pc = "backoff"]
       \/ \E rows \in get_cases_for_sla_processing(db) :
             loop2' = [loop2 EXCEPT !.cases = rows, !.idx = 1,
                                    !.pc = IF rows = <<>> THEN "sleep"
                                           ELSE "escalations"]
    /\ UNCHANGED <<now, db, audit_logs, notifications, running, firstLoop>>
    /\ UNCHANGED <<engineVars, apiVars, logVars, notifyVars, authVars>>

\* One pass of the second loop's process_escalations loop body, for its
\* cases[idx], with the repository answering.
SecondEscalate ==
    /\ loop2.pc = "escalations"
    /\ loop2.idx <= Len(loop2.cases)
    /\ LET case == loop2.cases[loop2.idx]
           r == execute_transition(case, "escalate", "system", "system",
                                   auto_notes(case.escalation_level), now, now)
           u == update_case_in_db(db, audit_logs, r.context, r.transition, now, now)
       IN
       IF should_escalate(case, now) /\ r.ok
       THEN /\ db' = u.db
            /\ audit_logs' = u.audit_logs
            /\ IF u.raised # NoneStr
               THEN /\ loop2' = [loop2 EXCEPT
                                   !.cases[loop2.idx] = r.context,
                                   !.updated = @ \cup {case.case_id},
                                   !.pc = "backoff"]
                    /\ UNCHANGED notifications
               ELSE /\ loop2' = [loop2 EXCEPT
                                   !.cases[loop2.idx] = r.context,
                                   !.updated = @ \cup {case.case_id},
                                   !.idx = @ + 1]
                    /\ notifications' =
                          notifications \cup send_escalation_notifications(r.context)
       ELSE /\ loop2' = [loop2 EXCEPT !.idx = @ + 1]
            /\ UNCHANGED <<db, audit_logs, notifications>>
    /\ UNCHANGED <<now, running, firstLoop>>
    /\ UNCHANGED <<engineVars, apiVars, logVars, notifyVars, authVars>>

\* The second loop's process_escalations returns and its process_sla_warnings
\* runs over the cycle's cases; the loop sleeps.
SecondWarnings ==
    /\ loop2.pc = "escalations"
    /\ loop2.idx > Len(loop2.cases)
    /\ notifications' = notifications \cup
          {Notification(loop2.cases[k].case_id, "sla_warning",
                        loop2.cases[k].assigned_officer_id, "medium") :
             k \in {j \in 1..Len(loop2.cases) :
                      /\ warning_due(loop2.cases[j], now + 2, now)
                      /\ loop2.cases[j].assigned_officer_id # NoneStr}}
    /\ loop2' = [loop2 EXCEPT !.pc = "sleep"]
    /\ UNCHANGED <<now, db, audit_logs, running, firstLoop>>
    /\ UNCHANGED <<engineVars, apiVars, logVars, notifyVars, authVars>>

\* The second loop's asyncio.sleep returns and it tests self.running.
SecondWake ==
    /\ loop2.pc \in {"sleep", "backoff"}
    /\ loop2' = Loop(IF running THEN "cycle" ELSE "stopped", <<>>, 0, loop2.updated)
    /\ UNCHANGED <<now, db, audit_logs, notifications, running, firstLoop>>
    /\ UNCHANGED <<engineVars, apiVars, logVars, notifyVars, authVars>>

NextLoops ==
    \/ Tick
    \/ Start
    \/ StartAgain
    \/ Stop
    \/ Fetch
    \/ EscalateStep
    \/ EscalationsDone
    \/ WarnStep
    \/ WarningsDone
    \/ Wake
    \/ SecondFetch
    \/ SecondEscalate
    \/ SecondWarnings
    \/ SecondWake

\* The worker over one table of cases under review, start() and stop() called
\* at any time.
SpecLoops == InitWorkerLive /\ [][NextLoops]_vars

\* ------------------------------------------------------------------ API
\* The cases MOCK_CASES may come to hold.
MaxCases == 2

\* The jurisdictions a submission names.
Jurisdictions == {"IN"}

\* The actions a PATCH body names: those of the engine and none.
BodyActions == Actions \cup {NoneStr}

\* The case ids a request names: those cases may have, and one no case has.
RequestCaseIds ==
    {DemoCaseId, UnknownCaseId}
        \cup {CaseId(stamp, jurisdiction) : stamp \in 0..MaxNow,
                                            jurisdiction \in Jurisdictions}

\* No engine caller: the context the worker and the API leave alone.
EngineIdle ==
    /\ ctx = CaseContext("CASE-2025-0001", "Submitted", "high", "IN", "victim_001",
                         NoneStr, 0, None, 0, 0)
    /\ prev = ctx
    /\ last = NoCall
    /\ level0 = 0
    /\ escalations = 0

\* update_case's if/elif chain: the status an action sets.
update_case_status(status, action) ==
    IF action = "start_review" THEN "under_review"
    ELSE IF action = "approve" THEN "approved"
    ELSE IF action = "reject" THEN "rejected"
    ELSE IF action = "close" THEN "closed"
    ELSE status

\* The API module loaded, the clock at 0.
InitApi ==
    /\ now = 0
    /\ EngineIdle
    /\ WorkerIdle
    /\ ApiIdle
    /\ LogIdle
    /\ NotifyIdle
    /\ AuthIdle

\* POST /v1/cases/submit: the case is stored under the id built from the clock
\* and the jurisdiction, replacing a case that has that id.
SubmitCase(jurisdiction) ==
    LET case_id == CaseId(now, jurisdiction) IN
    /\ Cardinality(DOMAIN mock_cases \cup {case_id}) <= MaxCases
    /\ mock_cases' = [id \in DOMAIN mock_cases \cup {case_id} |->
                         IF id = case_id
                         THEN ApiCase(case_id, "submitted", jurisdiction, now, now)
                         ELSE mock_cases[id]]
    /\ response' = Response(200, NoneStr, case_id, "submitted", NoneStr)
    /\ UNCHANGED <<now, engineVars, workerVars, logVars, notifyVars, authVars>>

\* PATCH /v1/cases/{case_id} with body {"action": action}: the HTTPException
\* for an unknown case is raised inside the try and caught by its except.
UpdateCase(case_id, action) ==
    /\ IF case_id \notin DOMAIN mock_cases
       THEN /\ response' = Response(500, "Case update failed", UnknownCaseId,
                                    NoneStr, NoneStr)
            /\ UNCHANGED mock_cases
       ELSE LET status == update_case_status(mock_cases[case_id].status, action) IN
            /\ mock_cases' = [mock_cases EXCEPT ![case_id].status = status,
                                                ![case_id].updated_at = now]
            /\ response' = Response(200, NoneStr, case_id, status, action)
    /\ UNCHANGED <<now, engineVars, workerVars, logVars, notifyVars, authVars>>

\* MOCK_USERS: username -> password, role and the one purpose of the user.
MOCK_USERS ==
    ("victim_jane_doe" :>
        [password |-> "secure_password_123", role |-> "victim", purpose |-> "takedown_submission"])
 @@ ("officer_alex_brown" :>
        [password |-> "officer_password_123", role |-> "officer", purpose |-> "case_review"])
 @@ ("admin_mike_chen" :>
        [password |-> "admin_password_123", role |-> "admin", purpose |-> "admin_action"])

\* The HTTPException login raises inside its try (None: it raises none).
login_raises(username, password, purpose) ==
    IF username \notin DOMAIN MOCK_USERS THEN 401
    ELSE IF MOCK_USERS[username].password # password THEN 401
    ELSE IF MOCK_USERS[username].purpose # purpose THEN 403
    ELSE None

\* POST /v1/auth/login with body {username, password, purpose}: the
\* HTTPException raised inside the try is caught by its except Exception,
\* which raises HTTPException(500, "Login failed"). The mock token is returned
\* and not stored.
Login(username, password, purpose) ==
    LET raised == login_raises(username, password, purpose)
        role == IF username \in DOMAIN MOCK_USERS THEN MOCK_USERS[username].role
                ELSE NoneStr
        token == IF raised = None
                 THEN [username |-> username, role |-> role, purpose |-> purpose,
                       exp |-> now + 1]
                 ELSE NoToken
    IN
    /\ response' = IF raised = None
                   THEN Response(200, NoneStr, UnknownCaseId, NoneStr, "login")
                   ELSE Response(500, "Login failed", UnknownCaseId, NoneStr, "login")
    /\ auth' = AuthCall("login", username, role, NoneStr, password, purpose,
                        username \in DOMAIN MOCK_USERS, raised = None, NoneStr, token,
                        IF raised = None THEN NoneStr ELSE "HTTPException", 0, None, now)
    /\ UNCHANGED <<now, engineVars, workerVars, logVars, notifyVars>>
    /\ UNCHANGED <<mock_cases, failed_attempts, tokens>>

NextApi ==
    \/ Tick
    \/ \E jurisdiction \in Jurisdictions : SubmitCase(jurisdiction)
    \/ \E case_id \in RequestCaseIds, action \in BodyActions :
          UpdateCase(case_id, action)

SpecApi == InitApi /\ [][NextApi]_vars

\* ------------------------------------------------------ transparency log
\* The lines the log file may come to hold.
MaxLog == 2

\* Python values that go into an entry: str, int, None and dict (its items in
\* insertion order, each key a str or an int).
PyStr(s) == [t |-> "str", s |-> s, n |-> 0, items |-> <<>>]

PyInt(n) == [t |-> "int", s |-> "", n |-> n, items |-> <<>>]

PyNone == [t |-> "none", s |-> "", n |-> 0, items |-> <<>>]

PyDict(items) == [t |-> "dict", s |-> "", n |-> 0, items |-> items]

Item(k, v) == [k |-> k, v |-> v]

\* An Optional[str] field as a Python value.
Py(x) == IF x = NoneStr THEN PyNone ELSE PyStr(x)

\* JSON text, by its structure: a string, a number, null, or an object whose
\* members stand in the order of the text.
JsonString(s) == [j |-> "string", s |-> s, n |-> 0, members |-> <<>>]

JsonNumber(n) == [j |-> "number", s |-> "", n |-> n, members |-> <<>>]

JsonNull == [j |-> "null", s |-> "", n |-> 0, members |-> <<>>]

JsonObject(members) == [j |-> "object", s |-> "", n |-> 0, members |-> members]

\* The strings that occur as dict keys, in the order of Python's str
\* comparison (by code point).
KeyStrings == <<"10", "2", "by_level", "note">>

\* a < b for two str.
str_lt(a, b) ==
    \E x, y \in 1..Len(KeyStrings) : x < y /\ KeyStrings[x] = a /\ KeyStrings[y] = b

\* a < b for two dict keys of one type, as sort_keys compares them.
key_lt(a, b) == IF a.t = "int" THEN a.n < b.n ELSE str_lt(a.s, b.s)

\* The member name json.dumps writes for a dict key: an int key becomes its
\* decimal string.
key_text(k) == IF k.t = "int" THEN ToString(k.n) ELSE k.s

\* json.dumps raises TypeError: with sort_keys, a dict holds keys of two types
\* ('<' not supported between instances of 'int' and 'str').
RECURSIVE dumps_raises(_, _)
dumps_raises(v, sort_keys) ==
    /\ v.t = "dict"
    /\ \/ sort_keys /\ \E a, b \in 1..Len(v.items) : v.items[a].k.t # v.items[b].k.t
       \/ \E a \in 1..Len(v.items) : dumps_raises(v.items[a].v, sort_keys)

\* json.dumps(v, sort_keys=sort_keys), for a value it does not raise on.
RECURSIVE json_dumps(_, _)
json_dumps(v, sort_keys) ==
    CASE v.t = "str" -> JsonString(v.s)
      [] v.t = "int" -> JsonNumber(v.n)
      [] v.t = "none" -> JsonNull
      [] v.t = "dict" ->
           LET items == IF sort_keys
                        THEN SortSeq(v.items, LAMBDA a, b : key_lt(a.k, b.k))
                        ELSE v.items
           IN JsonObject([a \in 1..Len(items) |->
                            [name |-> key_text(items[a].k),
                             value |-> json_dumps(items[a].v, sort_keys)]])

\* json.loads: every member name comes back as a str key.
RECURSIVE json_loads(_)
json_loads(node) ==
    CASE node.j = "string" -> PyStr(node.s)
      [] node.j = "number" -> PyInt(node.n)
      [] node.j = "null" -> PyNone
      [] node.j = "object" ->
           PyDict([a \in 1..Len(node.members) |->
                     Item(PyStr(node.members[a].name),
                          json_loads(node.members[a].value))])

\* The separators datetime.fromisoformat accepts between date and time.
IsoSeparators == {"T", " "}

\* datetime.fromisoformat raises ValueError: the text is no ISO date-time.
fromisoformat_raises(s) ==
    ~\E t \in 0..(MaxNow + 1), sep \in IsoSeparators : isoformat_sep(t, sep) = s

\* datetime.fromisoformat, for a text it does not raise on.
fromisoformat(s) ==
    CHOOSE t \in 0..(MaxNow + 1) : \E sep \in IsoSeparators : isoformat_sep(t, sep) = s

\* The dataclass TransparencyLogEntry (and the viewer's LogEntry): timestamp a
\* clock reading, the str fields as given (NoneStr: None), metadata a dict.
TransparencyLogEntry(timestamp, case_id, action, actor, old_state, new_state, reason_code, jurisdiction, priority, metadata, checksum) ==
    [timestamp |-> timestamp, case_id |-> case_id, action |-> action, actor |-> actor,
     old_state |-> old_state, new_state |-> new_state, reason_code |-> reason_code,
     jurisdiction |-> jurisdiction, priority |-> priority, metadata |-> metadata,
     checksum |-> checksum]

\* The dict both checksum computations build from an entry's fields.
checksum_data(entry) ==
    [timestamp |-> PyStr(isoformat(entry.timestamp)), case_id |-> Py(entry.case_id),
     action |-> Py(entry.action), actor |-> Py(entry.actor),
     old_state |-> Py(entry.old_state), new_state |-> Py(entry.new_state),
     reason_code |-> Py(entry.reason_code), jurisdiction |-> Py(entry.jurisdiction),
     priority |-> Py(entry.priority), metadata |-> entry.metadata]

\* json.dumps(data, sort_keys=True, separators=(',', ':')) of a dict with str
\* keys: its members by name, each value dumped with sorted keys.
data_string(data) == [f \in DOMAIN data |-> json_dumps(data[f], TRUE)]

\* TransparencyLogger._calculate_checksum.
calculate_checksum(entry) == sha256(data_string(checksum_data(entry)))

\* TransparencyLogger._write_log_entry: the line written, json.dumps of
\* asdict(entry) with the timestamp in ISO form (keys not sorted).
write_log_entry(entry) ==
    [f \in DOMAIN checksum_data(entry) |-> json_dumps(checksum_data(entry)[f], FALSE)]
        @@ [checksum |-> entry.checksum]

\* A line that is no JSON text: json.loads raises JSONDecodeError on it.
InvalidJson == [invalid_json |-> "{not json"]

\* json.loads of a line of the file that is JSON text.
load_line(line) ==
    [f \in DOMAIN line |-> IF f = "checksum" THEN line[f] ELSE json_loads(line[f])]

\* TransparencyLogger.verify_integrity's test of one line: it is JSON text, it
\* has a checksum, and the checksum over every key of the loaded line but
\* 'checksum' equals the stored one.
line_intact(line) ==
    /\ "invalid_json" \notin DOMAIN line
    /\ "checksum" \in DOMAIN line
    /\ LET entry_data == load_line(line)
           data == [f \in DOMAIN entry_data \ {"checksum"} |-> entry_data[f]]
       IN entry_data.checksum = sha256(data_string(data))

\* TransparencyLogger.verify_integrity: (ok, the line numbers in errors).
verify_integrity(file) ==
    LET errors == {k \in 1..Len(file) : ~line_intact(file[k])}
    IN [ok |-> errors = {}, errors |-> errors]

\* A str value the viewer read, as the Optional[str] it is.
Unpy(v) == IF v.t = "none" THEN NoneStr ELSE v.s

\* data.get(key) of a str field: None when the key is missing.
get_field(data, key) == IF key \in DOMAIN data THEN Unpy(data[key]) ELSE NoneStr

\* The keys _parse_log_entry subscripts after the timestamp.
ParsedKeys ==
    {"case_id", "action", "actor", "reason_code", "jurisdiction", "priority",
     "metadata", "checksum"}

\* The exception that reading one line in get_log_entries raises (NoneStr:
\* none): json.loads on text that is no JSON, data['timestamp'] on a missing
\* key, fromisoformat on a text that is no date, data[key] on a missing key.
line_raises(line) ==
    IF "invalid_json" \in DOMAIN line THEN "JSONDecodeError"
    ELSE IF "timestamp" \notin DOMAIN line THEN "KeyError"
    ELSE IF fromisoformat_raises(line.timestamp.s) THEN "ValueError"
    ELSE IF \E key \in ParsedKeys : key \notin DOMAIN line THEN "KeyError"
    ELSE NoneStr

\* TransparencyViewer._parse_log_entry, for data it does not raise on.
parse_log_entry(data) ==
    TransparencyLogEntry(fromisoformat(data.timestamp.s), Unpy(data.case_id),
                         Unpy(data.action), Unpy(data.actor),
                         get_field(data, "old_state"), get_field(data, "new_state"),
                         Unpy(data.reason_code), Unpy(data.jurisdiction),
                         Unpy(data.priority), data.metadata, data.checksum)

\* TransparencyViewer.verify_entry_integrity.
verify_entry_integrity(entry) == entry.checksum = calculate_checksum(entry)

\* The limit get_log_entries takes when none is given.
DefaultLimit == 100

\* The limit get_case_timeline passes.
TimelineLimit == 1000

\* The limit verify_log_integrity and get_audit_summary pass.
VerifyLimit == 10000

\* The filters with to_date as an exclusive bound.
passes_filters_exclusive(entry, args) ==
    /\ ~(args.case_id # NoneStr /\ entry.case_id # args.case_id)
    /\ ~(args.action # NoneStr /\ entry.action # args.action)
    /\ ~(args.actor # NoneStr /\ entry.actor # args.actor)
    /\ ~(args.from_date # None /\ entry.timestamp < args.from_date)
    /\ ~(args.to_date # None /\ entry.timestamp >= args.to_date)

\* The filters of get_log_entries let an entry through.
passes_filters(entry, args) ==
    /\ ~(args.case_id # NoneStr /\ entry.case_id # args.case_id)
    /\ ~(args.action # NoneStr /\ entry.action # args.action)
    /\ ~(args.actor # NoneStr /\ entry.actor # args.actor)
    /\ ~(args.from_date # None /\ entry.timestamp < args.from_date)
    /\ ~(args.to_date # None /\ entry.timestamp > args.to_date)

\* TransparencyViewer.get_log_entries: the exception that left it (NoneStr:
\* it returned), the entries it returned, and the line each was read from.
\* A line that raises JSONDecodeError or KeyError is passed over, any other
\* exception leaves the call; the loop ends once limit entries are held.
get_log_entries(file, args) ==
    LET scan[k \in 0..Len(file)] ==
          IF k = 0
          THEN [raised |-> NoneStr, entries |-> <<>>, lines |-> <<>>, done |-> FALSE]
          ELSE LET before == scan[k - 1]
                   err == line_raises(file[k])
               IN IF before.raised # NoneStr \/ before.done THEN before
                  ELSE IF err \in {"JSONDecodeError", "KeyError"} THEN before
                  ELSE IF err # NoneStr
                  THEN [raised |-> err, entries |-> <<>>, lines |-> <<>>, done |-> TRUE]
                  ELSE LET entry == parse_log_entry(load_line(file[k])) IN
                       IF passes_filters(entry, args)
                       THEN [raised |-> NoneStr,
                             entries |-> Append(before.entries, entry),
                             lines |-> Append(before.lines, k),
                             done |-> Len(before.entries) + 1 >= args.limit]
                       ELSE before
    IN [raised |-> scan[Len(file)].raised, entries |-> scan[Len(file)].entries,
        lines |-> scan[Len(file)].lines]

\* TransparencyViewer.get_case_timeline.
get_case_timeline(file, case_id) ==
    get_log_entries(file, Filters(case_id, NoneStr, NoneStr, None, None, TimelineLimit))

\* round(part / total * 100, 2), in hundredths of a percent (9000 is 90.0);
\* 100 for an empty total.
integrity_percentage(part, total) ==
    IF total > 0 THEN (2 * 10000 * part + total) \div (2 * total) ELSE 10000

\* The entries of a get_log_entries result that fail verify_entry_integrity,
\* in order, as the issue each is reported with (and the line it came from).
integrity_issues(got) ==
    LET failing == SelectSeq([i \in 1..Len(got.entries) |-> i],
                             LAMBDA i : ~verify_entry_integrity(got.entries[i]))
    IN [j \in 1..Len(failing) |->
          [timestamp |-> isoformat(got.entries[failing[j]].timestamp),
           case_id |-> got.entries[failing[j]].case_id,
           action |-> got.entries[failing[j]].action,
           line |-> got.lines[failing[j]]]]

\* TransparencyAPI.verify_log_integrity on an existing file: the exception
\* that left it, or its report.
verify_log_integrity(file) ==
    LET got == get_log_entries(file, Filters(NoneStr, NoneStr, NoneStr, None, None, VerifyLimit))
        issues == integrity_issues(got)
        total_entries == Len(got.entries)
    IN [raised |-> got.raised,
        report |-> IF got.raised # NoneStr THEN <<>>
                   ELSE [status |-> IF Len(issues) = 0 THEN "success" ELSE "warning",
                         total_entries |-> total_entries,
                         integrity_issues |-> Len(issues),
                         integrity_percentage |->
                             integrity_percentage(total_entries - Len(issues), total_entries),
                         issues |-> issues]]

\* TransparencyAPI.get_case_audit_trail: the timeline holds the verified
\* entries, 'integrity_issues' the list of issues.
get_case_audit_trail(file, case_id) ==
    LET got == get_case_timeline(file, case_id)
        issues == integrity_issues(got)
        verified == SelectSeq(got.entries, verify_entry_integrity)
    IN [raised |-> got.raised,
        report |-> IF got.raised # NoneStr THEN <<>>
                   ELSE [case_id |-> case_id,
                         total_entries |-> Len(got.entries),
                         verified_entries |-> Len(verified),
                         timeline |-> verified,
                         integrity_issues |-> issues]]

\* TransparencyViewer.get_audit_summary at clock t: without from_date the
\* range starts 30 days back (before every entry), without to_date it ends
\* at t.
get_audit_summary(file, from_date, to_date, t) ==
    LET from == IF from_date = None THEN 0 ELSE from_date
        to == IF to_date = None THEN t ELSE to_date
        got == get_log_entries(file, Filters(NoneStr, NoneStr, NoneStr, from, to, VerifyLimit))
        total_actions == Len(got.entries)
        issues == Len(integrity_issues(got))
    IN [raised |-> got.raised,
        report |-> IF got.raised # NoneStr THEN <<>>
                   ELSE [total_actions |-> total_actions,
                         unique_cases |-> Cardinality({got.entries[i].case_id : i \in 1..total_actions}),
                         unique_actors |-> Cardinality({got.entries[i].actor : i \in 1..total_actions}),
                         integrity_issues |-> issues,
                         integrity_percentage |->
                             integrity_percentage(total_actions - issues, total_actions)]]

\* The metadata log_action is given: None, an empty dict, a flat dict, a dict
\* holding a dict with str keys, one holding a dict with int keys, and a dict
\* with keys of two types.
MetadataInputs ==
    {PyNone,
     PyDict(<<>>),
     PyDict(<<Item(PyStr("note"), PyStr("overdue"))>>),
     PyDict(<<Item(PyStr("note"), PyStr("overdue")),
              Item(PyStr("by_level"),
                   PyDict(<<Item(PyStr("2"), PyInt(1)), Item(PyStr("10"), PyInt(2))>>))>>),
     PyDict(<<Item(PyStr("by_level"),
                   PyDict(<<Item(PyInt(2), PyInt(1)), Item(PyInt(10), PyInt(2))>>))>>),
     PyDict(<<Item(PyStr("note"), PyStr("overdue")), Item(PyInt(2), PyInt(1))>>)}

\* The states log_action is given for old_state and new_state.
LoggedStates == {NoneStr, "In Review", "Escalated"}

\* Nothing logged, the clock at 0.
InitLog ==
    /\ now = 0
    /\ EngineIdle
    /\ WorkerIdle
    /\ ApiIdle
    /\ LogIdle
    /\ NotifyIdle
    /\ AuthIdle

\* log_action opening the file with mode 'w': the line replaces the file.
LogAction_overwrite(case_id, action, actor, old_state, new_state, reason_code, jurisdiction, priority, metadata) ==
    LET md == IF metadata.t = "none" \/ metadata.items = <<>>
              THEN PyDict(<<>>) ELSE metadata
        blank == TransparencyLogEntry(now, case_id, action, actor, old_state,
                                      new_state, reason_code, jurisdiction,
                                      priority, md, NoneStr)
    IN
    /\ Len(log_file) < MaxLog
    /\ IF dumps_raises(md, TRUE)
       THEN /\ log_result' = [raised |-> "TypeError", checksum |-> NoneStr]
            /\ UNCHANGED <<log_file, receipts, written>>
       ELSE LET entry == [blank EXCEPT !.checksum = calculate_checksum(blank)] IN
            /\ log_file' = <<write_log_entry(entry)>>
            /\ receipts' = Append(receipts, entry.checksum)
            /\ written' = Append(written, write_log_entry(entry))
            /\ log_result' = [raised |-> NoneStr, checksum |-> entry.checksum]
    /\ view' = NoView
    /\ UNCHANGED <<now, engineVars, workerVars, apiVars, notifyVars, authVars>>

\* TransparencyLogger.log_action: the checksum is computed, which raises on
\* metadata json.dumps cannot sort, then the line is appended.
LogAction(case_id, action, actor, old_state, new_state, reason_code, jurisdiction, priority, metadata) ==
    LET md == IF metadata.t = "none" \/ metadata.items = <<>>
              THEN PyDict(<<>>) ELSE metadata
        blank == TransparencyLogEntry(now, case_id, action, actor, old_state,
                                      new_state, reason_code, jurisdiction,
                                      priority, md, NoneStr)
    IN
    /\ Len(log_file) < MaxLog
    /\ IF dumps_raises(md, TRUE)
       THEN /\ log_result' = [raised |-> "TypeError", checksum |-> NoneStr]
            /\ UNCHANGED <<log_file, receipts, written>>
       ELSE LET entry == [blank EXCEPT !.checksum = calculate_checksum(blank)] IN
            /\ log_file' = Append(log_file, write_log_entry(entry))
            /\ receipts' = Append(receipts, entry.checksum)
            /\ written' = Append(written, write_log_entry(entry))
            /\ log_result' = [raised |-> NoneStr, checksum |-> entry.checksum]
    /\ view' = NoView
    /\ UNCHANGED <<now, engineVars, workerVars, apiVars, notifyVars, authVars>>

NextLog ==
    \/ Tick
    \/ \E old_state \in LoggedStates, new_state \in LoggedStates,
          metadata \in MetadataInputs :
          LogAction("case-a", "escalate", "system", old_state, new_state,
                    "sla_violation", "IN", "high", metadata)

SpecLog == InitLog /\ [][NextLog]_vars

\* The file exists: TransparencyLogger creates the directory only, the first
\* log_action the file.
log_file_exists == log_file # <<>>

\* What a call of a verifier or of the viewer leaves alone: everything but
\* view.
viewFrame == <<now, engineVars, workerVars, apiVars, notifyVars, authVars, log_file, receipts,
              log_result, written>>

\* TransparencyLogger.verify_integrity().
VerifyIntegrity ==
    /\ view' = View("verify_integrity", NoFilters, NoneStr, <<>>,
                    IF log_file_exists THEN verify_integrity(log_file)
                    ELSE [ok |-> FALSE, errors |-> {0}])
    /\ UNCHANGED viewFrame

\* TransparencyAPI.verify_log_integrity().
VerifyLogIntegrity ==
    /\ view' = IF log_file_exists
               THEN LET r == verify_log_integrity(log_file) IN
                    View("verify_log_integrity", NoFilters, r.raised, <<>>, r.report)
               ELSE View("verify_log_integrity", NoFilters, NoneStr, <<>>,
                         [status |-> "error", message |-> "Log file does not exist"])
    /\ UNCHANGED viewFrame

\* TransparencyViewer.get_log_entries(case_id, action, actor, from_date,
\* to_date, limit); get_case_timeline(case_id) is the call with case_id and
\* the limit TimelineLimit.
GetLogEntries(case_id, action, actor, from_date, to_date, limit) ==
    /\ view' = LET args == Filters(case_id, action, actor, from_date, to_date, limit)
                   r == get_log_entries(log_file, args)
               IN View("get_log_entries", args, r.raised, r.entries, [lines |-> r.lines])
    /\ UNCHANGED viewFrame

\* TransparencyAPI.get_case_audit_trail(case_id).
GetCaseAuditTrail(case_id) ==
    /\ view' = LET r == get_case_audit_trail(log_file, case_id) IN
               View("get_case_audit_trail",
                    Filters(case_id, NoneStr, NoneStr, None, None, TimelineLimit),
                    r.raised, <<>>, r.report)
    /\ UNCHANGED viewFrame

\* TransparencyViewer.get_audit_summary(from_date, to_date).
GetAuditSummary(from_date, to_date) ==
    /\ view' = LET r == get_audit_summary(log_file, from_date, to_date, now) IN
               View("get_audit_summary",
                    Filters(NoneStr, NoneStr, NoneStr, from_date, to_date, VerifyLimit),
                    r.raised, <<>>, r.report)
    /\ UNCHANGED viewFrame

\* What the viewer is asked about: a case id, an action and an actor.
ViewedCaseIds == {"case-a"}

\* The calls of get_log_entries: no filter, each filter alone, a date range,
\* all filters, and a limit of one entry.
FilterInputs ==
    {Filters(NoneStr, NoneStr, NoneStr, None, None, DefaultLimit),
     Filters("case-a", NoneStr, NoneStr, None, None, DefaultLimit),
     Filters("case-a", NoneStr, NoneStr, None, None, TimelineLimit),
     Filters(NoneStr, "escalate", NoneStr, None, None, DefaultLimit),
     Filters(NoneStr, NoneStr, "officer_001", None, None, DefaultLimit),
     Filters(NoneStr, NoneStr, NoneStr, 1, None, DefaultLimit),
     Filters(NoneStr, NoneStr, NoneStr, None, 1, DefaultLimit),
     Filters(NoneStr, NoneStr, NoneStr, 1, 2, DefaultLimit),
     Filters("case-a", "escalate", "system", 1, 2, DefaultLimit),
     Filters(NoneStr, NoneStr, NoneStr, None, None, 1),
     Filters("case-a", NoneStr, NoneStr, None, None, 1)}

\* What is logged while the viewer is in use: case, action, actor, states and
\* reason of a transition, and its metadata (one dict json.dumps cannot sort).
LoggedInputs ==
    {[case_id |-> "case-a", action |-> "escalate", actor |-> "system",
      old_state |-> "In Review", new_state |-> "Escalated",
      reason_code |-> "sla_violation", metadata |-> PyDict(<<>>)],
     [case_id |-> "case-a", action |-> "approve", actor |-> "officer_001",
      old_state |-> "In Review", new_state |-> "Approved",
      reason_code |-> "content_verified_harmful",
      metadata |-> PyDict(<<Item(PyStr("note"), PyStr("overdue"))>>)],
     [case_id |-> "case-b", action |-> "escalate", actor |-> "system",
      old_state |-> "In Review", new_state |-> "Escalated",
      reason_code |-> "sla_violation",
      metadata |-> PyDict(<<Item(PyStr("note"), PyStr("overdue")), Item(PyInt(2), PyInt(1))>>)],
     [case_id |-> "case-b", action |-> "escalate", actor |-> "system",
      old_state |-> "In Review", new_state |-> "Escalated",
      reason_code |-> "sla_violation", metadata |-> PyNone]}

\* The log is written and read, nobody touching the file.
NextViewer ==
    \/ Tick
    \/ \E e \in LoggedInputs :
          LogAction(e.case_id, e.action, e.actor, e.old_state, e.new_state,
                    e.reason_code, "IN", "high", e.metadata)
    \/ VerifyIntegrity
    \/ VerifyLogIntegrity
    \/ \E a \in FilterInputs :
          GetLogEntries(a.case_id, a.action, a.actor, a.from_date, a.to_date, a.limit)
    \/ \E case_id \in ViewedCaseIds : GetCaseAuditTrail(case_id)
    \/ \E from_date \in {None, 1} : GetAuditSummary(from_date, None)

SpecViewer == InitLog /\ [][NextViewer]_vars

\* The fields of a stored entry.
EntryFields ==
    {"timestamp", "case_id", "action", "actor", "old_state", "new_state",
     "reason_code", "jurisdiction", "priority", "metadata", "checksum"}

\* The checksum of an entry that was never logged.
ForgedChecksum ==
    calculate_checksum(TransparencyLogEntry(0, "forged", "forged", "forged", NoneStr,
                                            NoneStr, "forged", "forged", "forged",
                                            PyDict(<<>>), NoneStr))

\* The values someone with access to the file puts in place of a field of a
\* line: for the timestamp another instant, the same instant written with a
\* blank for the 'T', and a text that is no date; for a str field the text
\* with a character added, or null; for the metadata another object; for the
\* checksum another digest.
Alterations(line, field) ==
    (CASE field = "timestamp" ->
            LET t == fromisoformat(line.timestamp.s) IN
            {JsonString(isoformat(t + 1)), JsonString(isoformat_sep(t, " ")),
             JsonString(line.timestamp.s \o "X")}
       [] field = "metadata" ->
            {JsonObject(<<[name |-> "note", value |-> JsonString("forged")]>>)}
       [] field = "checksum" -> {ForgedChecksum}
       [] field \in {"old_state", "new_state"} ->
            {JsonNull, JsonString(IF line[field].j = "null" THEN "forged"
                                  ELSE line[field].s \o "X")}
       [] OTHER -> {JsonString(line[field].s \o "X")})
    \ {line[field]}

\* A change to the stored file leaves everything else alone; what a viewer
\* returned before it is forgotten.
Stored(file) ==
    /\ log_file' = file
    /\ view' = NoView
    /\ UNCHANGED <<receipts, log_result, written>>
    /\ UNCHANGED <<now, engineVars, workerVars, apiVars, notifyVars, authVars>>

\* Someone alters one field of line k of the file, so far as written.
AlterField(k, field) ==
    /\ k <= Len(log_file)
    /\ log_file[k] = written[k]
    /\ \E value \in Alterations(log_file[k], field) :
          Stored([log_file EXCEPT ![k] = [@ EXCEPT ![field] = value]])

\* Someone removes one field of line k of the file, so far as written.
RemoveField(k, field) ==
    /\ k <= Len(log_file)
    /\ log_file[k] = written[k]
    /\ Stored([log_file EXCEPT ![k] = [f \in DOMAIN @ \ {field} |-> @[f]]])

\* Someone overwrites line k of the file, so far as written, with text that
\* is no JSON.
CorruptLine(k) ==
    /\ k <= Len(log_file)
    /\ log_file[k] = written[k]
    /\ Stored([log_file EXCEPT ![k] = InvalidJson])

\* The case ids and the metadata of the entries logged under audit.
AuditCaseIds == {"case-a", "case-b"}

AuditMetadata ==
    {PyDict(<<Item(PyStr("note"), PyStr("overdue"))>>),
     PyDict(<<Item(PyStr("by_level"),
                   PyDict(<<Item(PyInt(2), PyInt(1)), Item(PyInt(10), PyInt(2))>>))>>)}

\* The log is written, altered in storage, and verified, all within the hour.
NextTamper ==
    \/ \E case_id \in AuditCaseIds, metadata \in AuditMetadata :
          LogAction(case_id, "escalate", "system", "In Review", "Escalated",
                    "sla_violation", "IN", "high", metadata)
    \/ \E k \in 1..MaxLog, field \in EntryFields : AlterField(k, field)
    \/ \E k \in 1..MaxLog, field \in EntryFields : RemoveField(k, field)
    \/ \E k \in 1..MaxLog : CorruptLine(k)
    \/ VerifyIntegrity
    \/ VerifyLogIntegrity
    \/ \E case_id \in AuditCaseIds : GetCaseAuditTrail(case_id)
    \/ \E from_date \in {None, 1} : GetAuditSummary(from_date, None)

SpecTamper == InitLog /\ [][NextTamper]_vars

\* Someone adds a field to line k of the file, so far as written.
AddField(k) ==
    /\ k <= Len(log_file)
    /\ log_file[k] = written[k]
    /\ Stored([log_file EXCEPT ![k] = [note |-> JsonString("forged")] @@ log_file[k]])

\* The calls of log_action in the example at the end of compliance.py: a
\* case is created (no old or new state is passed) and its review starts.
ExampleCalls ==
    {[action |-> "case_created", actor |-> "victim_jane_doe", old_state |-> NoneStr,
      new_state |-> NoneStr, reason_code |-> "initial_submission"],
     [action |-> "review_started", actor |-> "officer_alex_brown",
      old_state |-> "Submitted", new_state |-> "In Review",
      reason_code |-> "officer_assignment"]}

\* The log is written, a record of it is altered in storage, and each verifier
\* is run, all within the hour.
NextVerifiers ==
    \/ \E call \in ExampleCalls :
          LogAction("CASE-2025-0001", call.action, call.actor, call.old_state,
                    call.new_state, call.reason_code, "IN", "high", PyNone)
    \/ \E k \in 1..MaxLog, field \in EntryFields : AlterField(k, field)
    \/ \E k \in 1..MaxLog, field \in EntryFields : RemoveField(k, field)
    \/ \E k \in 1..MaxLog : AddField(k)
    \/ VerifyIntegrity
    \/ VerifyLogIntegrity

SpecVerifiers == InitLog /\ [][NextVerifiers]_vars

\* ------------------------------------------------------ authentication
\* SecurityConfig.login_attempts_max, login_lockout_minutes, jwt_expiry_hours.
login_attempts_max == 5

login_lockout_minutes == 15

jwt_expiry_hours == 24

\* TokenPurpose.
TokenPurpose ==
    {"takedown_submission", "case_review", "admin_action", "report_generation",
     "system_operation"}

\* SecurityConfig.purpose_restrictions.
purpose_restrictions ==
    ("victim" :> {"takedown_submission"})
 @@ ("officer" :> {"case_review", "report_generation"})
 @@ ("admin" :> {"admin_action", "report_generation", "system_operation"})

\* _get_user_by_username's mock_users: username -> role (all are active).
mock_users ==
    ("victim_jane_doe" :> "victim") @@ ("officer_alex_brown" :> "officer")
 @@ ("admin_mike_chen" :> "admin")

\* _verify_user_password's mock_passwords.
mock_passwords ==
    ("victim_jane_doe" :> "secure_password_123")
 @@ ("officer_alex_brown" :> "officer_password_123")
 @@ ("admin_mike_chen" :> "admin_password_123")

\* The key of failed_attempts: f"{username}:{ip_address}".
attempts_key(username, ip_address) == username \o ":" \o ip_address

\* failed_attempts.get(key, 0). An entry holds the count and, beside it, the
\* clock at the latest failure (which the code does not store).
attempts(fa, key) == IF key \in DOMAIN fa THEN fa[key].count ELSE 0

\* AuthenticationService._is_rate_limited; t is the clock, which it does not
\* read.
is_rate_limited(fa, key, t) == attempts(fa, key) >= login_attempts_max

\* AuthenticationService._record_failed_attempt.
record_failed_attempt(fa, key, t) ==
    [k \in DOMAIN fa \cup {key} |->
        IF k = key THEN [count |-> attempts(fa, key) + 1, at |-> t] ELSE fa[k]]

\* AuthenticationService._clear_failed_attempts.
clear_failed_attempts(fa, key) == [k \in DOMAIN fa \ {key} |-> fa[k]]

\* JWTManager._is_purpose_allowed.
is_purpose_allowed(role, purpose) ==
    IF role \in DOMAIN purpose_restrictions
    THEN purpose \in purpose_restrictions[role] ELSE FALSE

\* JWTManager.create_token without the test of the purpose.
create_token_unchecked(username, role, purpose, t) ==
    [raised |-> NoneStr,
     token |-> [username |-> username, role |-> role, purpose |-> purpose,
                exp |-> t + jwt_expiry_hours]]

\* JWTManager.create_token: the exception it raises (NoneStr: none) and the
\* claims of the token; t is datetime.utcnow().
create_token(username, role, purpose, t) ==
    IF ~is_purpose_allowed(role, purpose)
    THEN [raised |-> "ValueError", token |-> NoToken]
    ELSE [raised |-> NoneStr,
          token |-> [username |-> username, role |-> role, purpose |-> purpose,
                     exp |-> t + jwt_expiry_hours]]

\* JWTManager.verify_token(token) with no required purpose: the exception it
\* raises on an expired token.
verify_token(token, t) == IF token.exp < t THEN "ValueError" ELSE NoneStr

\* JWTManager.refresh_token; new_purpose NoneStr is the default None.
refresh_token(token, new_purpose, t) ==
    IF verify_token(token, t) # NoneStr
    THEN [raised |-> "ValueError", token |-> NoToken]
    ELSE create_token(token.username, token.role,
                      IF new_purpose # NoneStr THEN new_purpose ELSE token.purpose, t)

\* AuthenticationService.authenticate_user: failed_attempts as the call
\* leaves it, whether the password was compared, and (success, message, token).
authenticate_user(fa, username, password, purpose, ip_address, t) ==
    LET key == attempts_key(username, ip_address) IN
    IF is_rate_limited(fa, key, t)
    THEN [failed_attempts |-> fa, compared |-> FALSE, ok |-> FALSE,
          msg |-> "Too many failed login attempts", token |-> NoToken]
    ELSE IF username \notin DOMAIN mock_users
    THEN [failed_attempts |-> record_failed_attempt(fa, key, t), compared |-> FALSE,
          ok |-> FALSE, msg |-> "Invalid username or password", token |-> NoToken]
    ELSE IF mock_passwords[username] # password
    THEN [failed_attempts |-> record_failed_attempt(fa, key, t), compared |-> TRUE,
          ok |-> FALSE, msg |-> "Invalid username or password", token |-> NoToken]
    ELSE LET made == create_token(username, mock_users[username], purpose, t) IN
         [failed_attempts |-> clear_failed_attempts(fa, key), compared |-> TRUE,
          ok |-> made.raised = NoneStr,
          msg |-> IF made.raised = NoneStr THEN "token" ELSE "Purpose not allowed for role",
          token |-> made.token]

\* auth_service.authenticate_user(username, password, purpose, ip_address).
AuthenticateUser(username, password, purpose, ip_address) ==
    LET r == authenticate_user(failed_attempts, username, password, purpose,
                               ip_address, now)
        key == attempts_key(username, ip_address)
    IN
    /\ failed_attempts' = r.failed_attempts
    /\ tokens' = IF r.ok THEN tokens \cup {r.token} ELSE tokens
    /\ auth' = AuthCall("authenticate_user", username,
                        IF username \in DOMAIN mock_users THEN mock_users[username]
                        ELSE NoneStr,
                        ip_address, password, purpose,
                        r.compared, r.ok, r.msg, r.token, NoneStr,
                        attempts(failed_attempts, key),
                        IF key \in DOMAIN failed_attempts
                        THEN failed_attempts[key].at ELSE None,
                        now)
    /\ UNCHANGED <<now, engineVars, workerVars, apiVars, logVars, notifyVars>>

\* jwt_manager.create_token(user, purpose) for a registered user.
CreateToken(username, purpose) ==
    LET made == create_token(username, mock_users[username], purpose, now) IN
    /\ tokens' = IF made.raised = NoneStr THEN tokens \cup {made.token} ELSE tokens
    /\ auth' = AuthCall("create_token", username, mock_users[username], NoneStr,
                        NoneStr, purpose, FALSE, made.raised = NoneStr, NoneStr,
                        made.token, made.raised, 0, None, now)
    /\ UNCHANGED <<now, engineVars, workerVars, apiVars, logVars, notifyVars>>
    /\ UNCHANGED failed_attempts

\* jwt_manager.refresh_token(token, new_purpose) on a token issued before.
RefreshToken(token, new_purpose) ==
    LET made == refresh_token(token, new_purpose, now) IN
    /\ token \in tokens
    /\ tokens' = IF made.raised = NoneStr THEN tokens \cup {made.token} ELSE tokens
    /\ auth' = AuthCall("refresh_token", token.username, token.role, NoneStr, NoneStr,
                        IF new_purpose # NoneStr THEN new_purpose ELSE token.purpose,
                        FALSE, made.raised = NoneStr, NoneStr, made.token,
                        made.raised, 0, None, now)
    /\ UNCHANGED <<now, engineVars, workerVars, apiVars, logVars, notifyVars>>
    /\ UNCHANGED failed_attempts

\* -------------------------------------------------------- notifications
\* NotificationService.retry_attempts.
retry_attempts == 3

\* No more deliveries are created than this.
MaxDeliveries == 2

\* No delivery is retried more often than this.
MaxRetried == 4

\* What provider.send does: it returns success, returns failure, or raises.
Outcomes == {"sent", "failed", "raised"}

\* A NotificationDelivery: its status and retry_count, and how often
\* _retry_delivery has sent it, in all and after its status was SENT.
NotificationDelivery(status, retry_count, retries, resent) ==
    [status |-> status, retry_count |-> retry_count, retries |-> retries,
     resent |-> resent]

\* _send_notification_request for one channel with a provider: the delivery
\* as the first provider.send leaves it, and whether it is queued.
send_notification_request(outcome) ==
    IF outcome = "sent"
    THEN [delivery |-> NotificationDelivery("sent", 0, 0, 0), queued |-> FALSE]
    ELSE IF outcome = "failed"
    THEN [delivery |-> NotificationDelivery("failed", IF 0 < retry_attempts THEN 1 ELSE 0,
                                            0, 0),
          queued |-> 0 < retry_attempts]
    ELSE [delivery |-> NotificationDelivery("failed", 0, 0, 0), queued |-> FALSE]

\* NotificationService._retry_delivery: the delivery after one more
\* provider.send.
retry_delivery(delivery, outcome) ==
    [delivery EXCEPT
        !.status = IF outcome = "sent" THEN "sent" ELSE @,
        !.retry_count = IF outcome = "sent" THEN @ ELSE @ + 1,
        !.retries = @ + 1,
        !.resent = IF delivery.status = "sent" THEN @ + 1 ELSE @]

\* send_custom_notification to one channel.
SendNotification(outcome) ==
    LET r == send_notification_request(outcome) IN
    /\ Len(deliveries) < MaxDeliveries
    /\ deliveries' = Append(deliveries, r.delivery)
    /\ delivery_queue' = IF r.queued THEN Append(delivery_queue, Len(deliveries) + 1)
                         ELSE delivery_queue
    /\ UNCHANGED <<now, engineVars, workerVars, apiVars, logVars, authVars>>

\* process_retry_queue: the queue keeps the deliveries with retry_count below
\* retry_attempts, and each of them is sent again; outcomes[k] is what
\* provider.send does for the k-th of them.
ProcessRetryQueue(outcomes) ==
    LET retry_items == SelectSeq(delivery_queue,
                                 LAMBDA i : deliveries[i].retry_count < retry_attempts)
        position(i) == CHOOSE k \in 1..Len(retry_items) : retry_items[k] = i
    IN
    /\ delivery_queue # <<>>
    /\ \A i \in 1..Len(deliveries) : deliveries[i].retries < MaxRetried
    /\ delivery_queue' = retry_items
    /\ deliveries' =
          [i \in 1..Len(deliveries) |->
              IF \E k \in 1..Len(retry_items) : retry_items[k] = i
              THEN retry_delivery(deliveries[i], outcomes[position(i)])
              ELSE deliveries[i]]
    /\ UNCHANGED <<now, engineVars, workerVars, apiVars, logVars, authVars>>

\* Every component as constructed, the clock at 0.
InitIdle ==
    /\ now = 0
    /\ EngineIdle
    /\ WorkerIdle
    /\ ApiIdle
    /\ LogIdle
    /\ NotifyIdle
    /\ AuthIdle

NextNotify ==
    \/ \E outcome \in Outcomes : SendNotification(outcome)
    \/ \E outcomes \in [1..MaxDeliveries -> Outcomes] : ProcessRetryQueue(outcomes)

SpecNotify == InitIdle /\ [][NextNotify]_vars

\* Logins of one client address: a registered user and an unknown name,
\* each with the user's password or a wrong one.
LoginNames == {"victim_jane_doe", "nobody"}

LoginPasswords == {"secure_password_123", "wrong"}

ClientAddress == "10.0.0.1"

NextLockout ==
    \/ Tick
    \/ \E username \in LoginNames, password \in LoginPasswords :
          AuthenticateUser(username, password, "takedown_submission", ClientAddress)

SpecLockout == InitIdle /\ [][NextLockout]_vars

\* The tokens the registered users can present: claims as encoded at some
\* hour of the clock.
PresentedTokens ==
    {[username |-> u, role |-> mock_users[u], purpose |-> p, exp |-> t + jwt_expiry_hours] : u \in DOMAIN mock_users, p \in TokenPurpose, t \in 0..MaxNow}

\* Token requests of the registered users, each with its own password and
\* any purpose.
NextPurpose ==
    \/ \E username \in DOMAIN mock_users, purpose \in TokenPurpose :
          AuthenticateUser(username, mock_passwords[username], purpose, ClientAddress)
    \/ \E username \in DOMAIN mock_users, purpose \in TokenPurpose :
          CreateToken(username, purpose)
    \/ \E token \in PresentedTokens, new_purpose \in TokenPurpose \cup {NoneStr} :
          RefreshToken(token, new_purpose)

SpecPurpose == InitIdle /\ [][NextPurpose]_vars

\* The purposes a login body names.
LoginPurposes == {"takedown_submission", "admin_action"}

\* Requests to the API at one reading of the clock: logins, submissions and
\* updates.
NextLogin ==
    \/ \E jurisdiction \in Jurisdictions : SubmitCase(jurisdiction)
    \/ \E case_id \in RequestCaseIds, action \in BodyActions :
          UpdateCase(case_id, action)
    \/ \E username \in LoginNames, password \in LoginPasswords, purpose \in LoginPurposes :
          Login(username, password, purpose)

SpecLogin == InitApi /\ [][NextLogin]_vars

\* ------------------------------------------------------- worker claims
\* The cycle in progress has ended: the loop is in one of its sleeps.
CycleEnded == pc \in {"sleep", "backoff"}

\* C9: when a cycle in which the repository answered every call has run over a
\* fetched case that was In Review with a deadline earlier than the clock, the
\* case is persisted as Escalated, its escalation level one higher than fetched,
\* by the end of that cycle.
C9_CycleEscalatesOverdue ==
    (CycleEnded /\ ~db_failed) =>
        \A k \in 1..Len(fetched) :
            (fetched[k].current_status = "In Review"
                /\ fetched[k].sla_due_at < fetched_at) =>
                /\ db[fetched[k].case_id].current_status = "Escalated"
                /\ db[fetched[k].case_id].escalation_level
                       = fetched[k].escalation_level + 1

\* C10: after any cycle, complete or failed part-way, every case the worker has
\* persisted as Escalated has exactly one audit row of that transition with
\* reason code sla_violation, and no audit row lacks its persisted change.
C10_UpdateAndAuditTogether ==
    (CycleEnded \/ pc = "stopped") =>
        /\ \A c \in updated :
              Cardinality({k \in 1..Len(audit_logs) :
                              /\ audit_logs[k].case_id = c
                              /\ audit_logs[k].new_state = "Escalated"
                              /\ audit_logs[k].reason_code = "sla_violation"}) = 1
        /\ \A k \in 1..Len(audit_logs) : audit_logs[k].case_id \in updated

\* C11: a case persisted as Approved or Rejected (an officer's decision, also
\* one saved after the worker fetched the case as In Review) is never
\* overwritten by the worker: its row does not become Escalated and its
\* escalation level is not raised.
C11_StaleWriteRejected ==
    [][\A c \in CaseIds :
          db[c].current_status \in {"Approved", "Rejected"} =>
              /\ db'[c].current_status # "Escalated"
              /\ db'[c].escalation_level <= db[c].escalation_level]_vars

\* The escalation notifications of a case have been sent: one to its assigned
\* officer, when it has one, and one to every active administrator.
EscalationNotified(c) ==
    send_escalation_notifications(db[c]) \subseteq notifications

\* C12: every case the worker persists as Escalated has its escalation
\* notifications sent, in that cycle or in a later one: no escalated case is
\* left without them for ever.
C12_EscalationNotified ==
    \A c \in CaseIds : (c \in updated) ~> EscalationNotified(c)

\* C13: while the worker runs and the repository eventually answers, every case
\* In Review whose deadline has passed is eventually persisted as Escalated,
\* unless an officer resolves it, also when several cases are overdue at once.
C13_OverdueEventuallyEscalated ==
    \A c \in CaseIds :
        (db[c].current_status = "In Review" /\ db[c].sla_due_at # None
            /\ db[c].sla_due_at < now)
        ~> (db[c].current_status \in {"Escalated", "Approved", "Rejected"})

\* C13 happens: two cases with the same deadline were overdue together and the
\* worker has persisted both as Escalated, each one level up.
C13_Witness ==
    /\ updated = CaseIds
    /\ \A c \in CaseIds : /\ db[c].sla_due_at = 1
                          /\ db[c].current_status = "Escalated"
                          /\ db[c].escalation_level = 1

\* The SLA warnings sent for a case in the cycle in progress.
WarningsOf(case_id) == {w \in warned : w.case_id = case_id}

\* C15: when a cycle in which the repository answered every call has ended,
\* every case it fetched In Review with a deadline still in the future and
\* within two hours of the fetch has had a warning sent to its assigned officer
\* in that cycle (none when it has no officer), and the cycle has left the case
\* object and its persisted row as they were.
C15_WarningSentCaseUntouched ==
    (CycleEnded /\ ~db_failed) =>
        \A k \in 1..Len(fetched) :
            LET case == fetched[k] IN
            (case.current_status = "In Review" /\ case.sla_due_at > now
                /\ case.sla_due_at <= fetched_at + 2) =>
                /\ case.assigned_officer_id # NoneStr =>
                      /\ WarningsOf(case.case_id) # {}
                      /\ Notification(case.case_id, "sla_warning",
                                      case.assigned_officer_id, "medium")
                             \in notifications
                /\ case.assigned_officer_id = NoneStr => WarningsOf(case.case_id) = {}
                /\ cases[k] = case
                /\ case.case_id \notin updated
                /\ \/ db[case.case_id] = case
                   \/ db[case.case_id].current_status \in {"Approved", "Rejected"}

\* C16: in one cycle no case gets both an escalation and an SLA warning: a case
\* warned in the cycle was not escalated in it, and was not due for escalation
\* when the cycle's escalation loop ran over it nor when the warning was sent;
\* the alert manager sends one kind of alert for a case, critical or warning.
C16_NoWarningWithEscalation ==
    /\ \A k \in 1..Len(cases) :
          \A w \in WarningsOf(cases[k].case_id) :
              /\ cases[k] = fetched[k]
              /\ ~should_escalate(fetched[k], fetched_at)
              /\ ~should_escalate(cases[k], w.at)
    /\ LET alerts == check_sla_alerts(fetched, now) IN
       \A a, b \in 1..Len(alerts) :
           alerts[a].case_id = alerts[b].case_id => alerts[a].kind = alerts[b].kind

\* C16 happens: a case passed its deadline after the cycle's escalation loop had
\* run over it and before the warnings loop began; the cycle ended without a
\* warning for it, though it is In Review with an officer.
C16_Witness ==
    /\ pc = "sleep"
    /\ \E k \in 1..Len(cases) :
          /\ cases[k].current_status = "In Review"
          /\ cases[k].assigned_officer_id # NoneStr
          /\ cases[k].sla_due_at < warning_threshold - 2
          /\ WarningsOf(cases[k].case_id) = {}

\* The positions of the loop inside process_sla_cycle.
InCycle == {"cycle", "escalations", "warnings"}

\* C17: an error raised in process_sla_cycle does not end the loop: from the
\* backoff sleep the loop starts another cycle, after every failure, unless
\* stop() has been called; the loop ends only with running false.
C17_LoopSurvivesErrors ==
    [][/\ (pc = "backoff" /\ pc' # "backoff") =>
              pc' = IF running THEN "cycle" ELSE "stopped"
       /\ (pc \in InCycle /\ pc' \notin InCycle) => pc' \in {"sleep", "backoff"}
       /\ (pc # "stopped" /\ pc' = "stopped") => ~running]_vars

\* C17 happens: two cycles have failed after their UPDATE, one for each case,
\* and the loop is in its backoff sleep, still running.
C17_Witness ==
    /\ pc = "backoff"
    /\ running
    /\ updated = CaseIds
    /\ audit_logs = <<>>

ApiStatus(status) ==
    IF status = "submitted" THEN "Submitted"
    ELSE IF status = "under_review" THEN "In Review"
    ELSE IF status = "approved" THEN "Approved"
    ELSE IF status = "rejected" THEN "Rejected"
    ELSE IF status = "closed" THEN "Closed"
    ELSE NoneStr

\* C19: a case's status changes only along a rule of the transition table (from
\* s to t there is an action with a rule (s, action) -> t), also through the
\* API's update_case, and no case is removed.
C19_OnlyValidatedTransitions ==
    [][\A id \in DOMAIN mock_cases :
          /\ id \in DOMAIN mock_cases'
          /\ mock_cases'[id].status # mock_cases[id].status =>
                \E action \in Actions :
                    LET key == <<ApiStatus(mock_cases[id].status), action>> IN
                    /\ key \in DOMAIN define_transitions
                    /\ define_transitions[key].to_status
                           = ApiStatus(mock_cases'[id].status)]_vars

\* ----------------------------------------------------------- log claims
\* C20: every line log_action has written, unmodified, is intact for
\* TransparencyLogger.verify_integrity and for the viewer's
\* verify_entry_integrity, whatever the field values (old or new state absent,
\* metadata empty or nested), and the checksum log_action returned is the one
\* stored with the line.
C20_RoundTripIntact ==
    /\ verify_integrity(log_file).ok
    /\ \A k \in 1..Len(log_file) :
          /\ verify_entry_integrity(parse_log_entry(load_line(log_file[k])))
          /\ receipts[k] = log_file[k].checksum

\* The lines of the file that are no longer as log_action wrote them.
Altered == {k \in 1..Len(log_file) : log_file[k] # written[k]}

\* The fields of line k whose stored value is not the one written.
AlteredFields(k) ==
    {f \in EntryFields :
        f \notin DOMAIN log_file[k] \/ log_file[k][f] # written[k][f]}

\* Line k is as written but for the value of one field.
SingleFieldAltered(k) ==
    /\ DOMAIN log_file[k] = EntryFields
    /\ Cardinality(AlteredFields(k)) = 1

\* The lines the issues of a report name.
IssueLines(report) == {report.issues[i].line : i \in 1..Len(report.issues)}

\* C21: when one field of a stored entry has been changed (any of the eleven,
\* the checksum among them), each verifier reports a mismatch for that entry:
\* TransparencyLogger.verify_integrity names its line, and the viewer's
\* verify_log_integrity returns a report whose issues name it; neither reports
\* an entry that is still as written.
C21_SingleAlterationDetected ==
    \A k \in 1..Len(log_file) :
        SingleFieldAltered(k) =>
            /\ view.op = "verify_integrity" =>
                  /\ k \in view.report.errors
                  /\ view.report.errors \cap ((1..Len(log_file)) \ Altered) = {}
            /\ view.op = "verify_log_integrity" =>
                  /\ view.raised = NoneStr
                  /\ k \in IssueLines(view.report)
                  /\ IssueLines(view.report) \cap ((1..Len(log_file)) \ Altered) = {}

\* Line k is as written but for the value of one field other than the
\* checksum.
ContentAltered(k) == SingleFieldAltered(k) /\ "checksum" \notin AlteredFields(k)

\* C22: for a log of N entries of which exactly those of the set Altered have
\* had a content field changed, verify_log_integrity reports total_entries = N,
\* one issue for each entry of Altered and no other, status 'warning' ('success'
\* when none is altered) and integrity_percentage = (N - |Altered|) / N * 100;
\* get_audit_summary over the whole log counts the same.
C22_ReportCountsAltered ==
    LET N == Len(log_file) IN
    (log_file_exists /\ \A k \in Altered : ContentAltered(k)) =>
        /\ view.op = "verify_log_integrity" =>
              /\ view.raised = NoneStr
              /\ view.report.total_entries = N
              /\ view.report.integrity_issues = Cardinality(Altered)
              /\ IssueLines(view.report) = Altered
              /\ view.report.status = IF Altered = {} THEN "success" ELSE "warning"
              /\ view.report.integrity_percentage * N = (N - Cardinality(Altered)) * 10000
        /\ (view.op = "get_audit_summary" /\ view.args.from_date = None) =>
              /\ view.raised = NoneStr
              /\ view.report.total_actions = N
              /\ view.report.integrity_issues = Cardinality(Altered)

\* C23: whatever has been done to the stored lines (a value changed, the
\* timestamp made unparseable, a field removed, the line made invalid JSON),
\* verify_log_integrity returns a report, and the report accounts for every
\* line of the file: total_entries is the number of lines, each of them either
\* among the issues or among the total_entries - integrity_issues intact ones.
C23_VerificationAccountsForAll ==
    (view.op = "verify_log_integrity" /\ log_file_exists) =>
        /\ view.raised = NoneStr
        /\ view.report.total_entries = Len(log_file)
        /\ view.report.integrity_issues = Cardinality(IssueLines(view.report))
        /\ IssueLines(view.report) \subseteq 1..Len(log_file)

\* C24: the transparency log is append-only.  Every step of the logger and of
\* the viewer leaves the lines already in the file as they are and in their
\* order, and never removes one; a call of verify_integrity, get_log_entries
\* (get_case_timeline), verify_log_integrity, get_case_audit_trail or
\* get_audit_summary leaves the file as it is; a log_action that returns has
\* added exactly one line, at the end, carrying the checksum it returned, and
\* one that raises has added none.
C24_AppendOnly ==
    [][/\ Len(log_file') >= Len(log_file)
       /\ SubSeq(log_file', 1, Len(log_file)) = log_file
       /\ view'.op # "none" => log_file' = log_file
       /\ receipts' # receipts =>
             /\ Len(log_file') = Len(log_file) + 1
             /\ log_file'[Len(log_file')].checksum = log_result'.checksum
       /\ receipts' = receipts => log_file' = log_file]_vars

\* Two lines are in the file, one after the other written by log_action, and
\* the viewer has read them for the audit trail of a case.
C24_Witness ==
    /\ Len(log_file) = 2
    /\ log_file[1] # log_file[2]
    /\ view.op = "get_case_audit_trail"
    /\ view.report.total_entries = 1

\* The lines of the file whose entry, as log_action wrote it, matches every
\* filter a call of get_log_entries supplies (the date range inclusive).
Matching(args) ==
    {k \in 1..Len(written) :
        /\ args.case_id # NoneStr => written[k].case_id = JsonString(args.case_id)
        /\ args.action # NoneStr => written[k].action = JsonString(args.action)
        /\ args.actor # NoneStr => written[k].actor = JsonString(args.actor)
        /\ \E t \in 0..MaxNow :
              /\ written[k].timestamp = JsonString(isoformat(t))
              /\ args.from_date # None => t >= args.from_date
              /\ args.to_date # None => t <= args.to_date}

\* What get_log_entries returned is the lines of the set wanted, each once, in
\* the order of the file, with the fields stored in the line.
ReturnedInOrder(wanted) ==
    /\ view.raised = NoneStr
    /\ {view.report.lines[i] : i \in 1..Len(view.report.lines)} = wanted
    /\ Len(view.entries) = Len(view.report.lines)
    /\ \A i, j \in 1..Len(view.report.lines) :
          i < j => view.report.lines[i] < view.report.lines[j]
    /\ \A i \in 1..Len(view.entries) :
          LET line == log_file[view.report.lines[i]] IN
          /\ JsonString(view.entries[i].case_id) = line.case_id
          /\ JsonString(view.entries[i].action) = line.action
          /\ JsonString(view.entries[i].actor) = line.actor
          /\ JsonString(isoformat(view.entries[i].timestamp)) = line.timestamp

ActiveLoops == {k \in {1, 2} : IF k = 1 THEN pc # "stopped" ELSE loop2.pc # "stopped"}

\* The cases whose UPDATE both loops have executed.
EscalatedByBoth == updated \cap loop2.updated

\* C30: at most one loop of the SLA worker is active at any time, whatever the
\* calls of start() and stop(), so that no case is escalated by two loops whose
\* cycles overlap.
C30_AtMostOneLoop ==
    /\ Cardinality(ActiveLoops) <= 1
    /\ EscalatedByBoth = {}

\* The checksum calculate_audit_checksum gives for a stored audit row.
recomputed_checksum(row) ==
    calculate_audit_checksum(row.case_id, row.actor_id, row.action, row.old_state,
                             row.new_state, row.created_at)

C32_ReviewedHasDeadline ==
    ctx.current_status \in {"In Review", "Escalated"} =>
        /\ ctx.sla_due_at # None
        /\ \A rows \in get_cases_for_sla_processing(ctx.case_id :> ctx) :
              \E k \in 1..Len(rows) : rows[k] = ctx

\* C32 happens: the case has been reviewed, escalated and reassigned.
C32_Witness ==
    /\ Executed
    /\ last.ok
    /\ last.action = "reassign"
    /\ ctx.current_status = "In Review"
    /\ ctx.sla_due_at # None

\* C33: get_available_actions(case, role) holds an action exactly when
\* can_transition(case, action, role) reports it allowed, for every state and
\* role; the call leaves the case as it was, and so does a call that
\* can_transition refuses.
C33_AvailableIffAllowed ==
    /\ last.op = "get_available_actions" =>
          /\ \A a \in Actions :
                (\E k \in 1..Len(last.list) : last.list[k] = a)
                    <=> can_transition(ctx, a, last.user_role).ok
          /\ ctx = prev
    /\ (Executed /\ ~last.ok) => ctx = prev

\* C33 happens: an officer is offered the three actions on a case In Review.
C33_Witness ==
    /\ last.op = "get_available_actions"
    /\ last.user_role = "officer"
    /\ ctx.current_status = "In Review"
    /\ last.list = <<"approve", "reject", "escalate">>
    /\ \A a \in {"approve", "reject", "escalate"} : can_transition(ctx, a, "officer").ok

\* C34: the two verifiers agree on every stored record the viewer reads
\* (intact, with a changed value, with an added field, with old_state
\* removed): the report of verify_log_integrity names a record as an issue
\* exactly when TransparencyLogger.verify_integrity names its line.
C34_VerifiersAgree ==
    (view.op = "verify_log_integrity" /\ view.raised = NoneStr) =>
        \A k \in 1..Len(log_file) :
            line_raises(log_file[k]) = NoneStr =>
                (k \in IssueLines(view.report)
                    <=> k \in verify_integrity(log_file).errors)

\* C35: a delivery is sent again by process_retry_queue at most
\* retry_attempts times over all runs, and never after a retry of it
\* succeeded.
C35_RetriesBoundedStopOnSuccess ==
    \A i \in 1..Len(deliveries) :
        /\ deliveries[i].retries <= retry_attempts
        /\ deliveries[i].resent = 0

\* C36: the login lockout is temporary. While a key has login_attempts_max
\* recorded failures, an attempt is rejected without the password being
\* compared; a successful authentication leaves no recorded failures for its
\* key; and once login_lockout_minutes have passed since the latest failure
\* of a locked key, an attempt with the right credentials succeeds again.
C36_LockoutTemporary ==
    auth.op = "authenticate_user" =>
        LET locked == auth.before >= login_attempts_max
            elapsed == locked /\ (auth.at - auth.since) * 60 >= login_lockout_minutes
            key == attempts_key(auth.username, auth.ip_address)
        IN
        /\ (locked /\ ~elapsed) => (~auth.ok /\ ~auth.compared)
        /\ auth.ok => attempts(failed_attempts, key) = 0
        /\ (elapsed /\ auth.username \in DOMAIN mock_users
              /\ auth.password = mock_passwords[auth.username]
              /\ is_purpose_allowed(mock_users[auth.username], auth.purpose))
           => auth.ok

\* C37: purpose binding. Every token issued by create_token, authenticate_user
\* or refresh_token carries a purpose on the allow-list of its role; a request
\* for a purpose that is not on it ends in an error and issues no token; and
\* no token of a victim carries admin_action or case_review.
C37_PurposeBinding ==
    /\ \A tok \in tokens :
          /\ tok.purpose \in purpose_restrictions[tok.role]
          /\ tok.role = "victim" => tok.purpose \notin {"admin_action", "case_review"}
    /\ (auth.op \in {"create_token", "authenticate_user", "refresh_token"}
        /\ auth.role \in DOMAIN purpose_restrictions
        /\ auth.purpose \notin purpose_restrictions[auth.role])
       => (~auth.ok /\ auth.token = NoToken
           /\ (auth.op # "authenticate_user" => auth.raised = "ValueError"))

\* A victim's takedown token was presented to refresh_token for admin_action:
\* the call raised and the victim holds the takedown token only.
C37_Witness ==
    /\ auth.op = "refresh_token"
    /\ auth.role = "victim"
    /\ auth.purpose = "admin_action"
    /\ auth.raised = "ValueError"
    /\ \E tok \in tokens : tok.role = "victim" /\ tok.purpose = "takedown_submission"

\* C38: the API reports caller errors with their own status. A login answers
\* 401 for an unknown username or a wrong password and 403 for a purpose that
\* is not the user's; an update of an unknown case answers 404; no such
\* request is answered 500; and a request that fails leaves MOCK_CASES as it
\* was.
C38_CallerErrorStatus ==
    /\ [](response.action = "login" =>
            response.status_code =
                IF auth.username \notin DOMAIN MOCK_USERS THEN 401
                ELSE IF auth.password # MOCK_USERS[auth.username].password THEN 401
                ELSE IF auth.purpose # MOCK_USERS[auth.username].purpose THEN 403
                ELSE 200)
    /\ []((response.status_code \notin {None, 200} /\ response.action # "login")
          => response.status_code = 404)
    /\ [][response'.status_code \notin {None, 200} => mock_cases' = mock_cases]_vars

====
